---- MODULE Spec2Model ----
(***************************************************************************)
(* A model of the trajectory-similarity core of fairsea:                   *)
(*   compress_and_compare_voyages.py  (calc_proximity_matrix and its pool) *)
(*   advanced/cluster_predict.py      (incremental prediction, flags)      *)
(*   main_pipeline.py, create_map.py  (the callers and the map stage)      *)
(* Distances are the integers that dtw-python's default step pattern       *)
(* (symmetric2) with Euclidean local cost gives on a point set whose       *)
(* pairwise distances are whole numbers (corners of a 3 x 4 rectangle).    *)
(***************************************************************************)
EXTENDS Integers, Sequences, FiniteSets, TLC

\* ------------------------------------------------------------------ bounds
MaxVoyages == 3
MaxCpu == 2
MaxFlatN == 7

\* ------------------------------------------------------------ Python values
\* Python's None and a present value, kept apart from every value of the model.
None == <<>>
Some(x) == <<x>>

Min2(a, b) == IF a <= b THEN a ELSE b
Min3(a, b, c) == Min2(a, Min2(b, c))

\* ---------------------------------------------------------------- voyages
\* A voyage is a sequence of rows <<Longitude, Latitude>>.
p00 == <<0, 0>>
p30 == <<3, 0>>
p34 == <<3, 4>>
p04 == <<0, 4>>

Degenerate == <<>>
OnePoint == <<p30>>
StraightA == <<p00, p30>>
StraightB == <<p00, p30, p34>>
Loop == <<p00, p34, p04, p00, p34>>

\* ------------------------------------------------------------------- dtw
\* numpy.atleast_2d followed by the transposition dtw() applies to an array
\* with a single row: a one-point voyage becomes two one-column rows.
AsSeries(x) == IF Len(x) = 1 THEN [k \in 1..Len(x[1]) |-> <<x[1][k]>>] ELSE x

RECURSIVE SumSq(_, _, _)
SumSq(a, b, k) ==
    IF k = 0 THEN 0 ELSE (a[k] - b[k]) * (a[k] - b[k]) + SumSq(a, b, k - 1)

\* scipy's cdist entry, metric "euclidean": exact on the point set used here.
Euclid(a, b) ==
    LET s == SumSq(a, b, Len(a)) IN CHOOSE r \in 0..s : r * r = s

\* The dtw call raises: an empty series has no cell (0, 0), and cdist rejects
\* series whose rows differ in width.
DtwRaises(x, y) ==
    \/ Len(x) = 0
    \/ Len(y) = 0
    \/ Len(AsSeries(x)[1]) # Len(AsSeries(y)[1])

\* First row of the cumulative cost matrix: only horizontal steps.
RECURSIVE FirstRow(_, _, _)
FirstRow(xs, ys, j) ==
    IF j = 1 THEN <<Euclid(xs[1], ys[1])>>
    ELSE LET prev == FirstRow(xs, ys, j - 1)
         IN Append(prev, prev[j - 1] + Euclid(xs[1], ys[j]))

RECURSIVE NextRow(_, _, _, _, _)
RECURSIVE NextRow_unit_diagonal(_, _, _, _, _)
RECURSIVE NextRow_costly_vertical(_, _, _, _, _)
\* A row in which the diagonal step weighs the local cost once.
NextRow_unit_diagonal(xs, ys, i, above, j) ==
    IF j = 1 THEN <<above[1] + Euclid(xs[i], ys[1])>>
    ELSE LET row == NextRow_unit_diagonal(xs, ys, i, above, j - 1)
             c == Euclid(xs[i], ys[j])
         IN Append(row, Min3(above[j - 1] + c, row[j - 1] + c, above[j] + c))

\* A row in which the vertical step weighs the local cost twice.
NextRow_costly_vertical(xs, ys, i, above, j) ==
    IF j = 1 THEN <<above[1] + 2 * Euclid(xs[i], ys[1])>>
    ELSE LET row == NextRow_costly_vertical(xs, ys, i, above, j - 1)
             c == Euclid(xs[i], ys[j])
         IN Append(row, Min3(above[j - 1] + 2 * c, row[j - 1] + c, above[j] + 2 * c))

\* Row i from row i-1, step pattern symmetric2: the diagonal step weighs the
\* local cost twice, the horizontal and vertical steps once.
NextRow(xs, ys, i, above, j) ==
    IF j = 1 THEN <<above[1] + Euclid(xs[i], ys[1])>>
    ELSE LET row == NextRow(xs, ys, i, above, j - 1)
             c == Euclid(xs[i], ys[j])
         IN Append(row, Min3(above[j - 1] + 2 * c, row[j - 1] + c, above[j] + c))

RECURSIVE CostRow(_, _, _)
CostRow(xs, ys, i) ==
    IF i = 1 THEN FirstRow(xs, ys, Len(ys))
    ELSE NextRow(xs, ys, i, CostRow(xs, ys, i - 1), Len(ys))

\* dtw(x, y, distance_only=True).distance, defined where the call returns.
dtw(x, y) ==
    LET xs == AsSeries(x)
        ys == AsSeries(y)
    IN CostRow(xs, ys, Len(xs))[Len(ys)]

\* --------------------------------------------------------------- matrices
\* A matrix is a sequence of rows; numpy's 0 x 0 matrix is the empty sequence.
Zeros(n) == [r \in 1..n |-> [c \in 1..n |-> 0]]

\* A numpy array holds its entries: they are computed once, when it is built.
RECURSIVE ndarray_rows(_, _)
ndarray_rows(M, r) ==
    IF r = 0 THEN <<>>
    ELSE Append(ndarray_rows(M, r - 1), SubSeq(M[r], 1, Len(M[r])))

ndarray(M) == ndarray_rows(M, Len(M))

PlusTranspose(M) ==
    [r \in 1..Len(M) |-> [c \in 1..Len(M) |-> M[r][c] + M[c][r]]]

\* ------------------------------------------------- calc_proximity_matrix
flat_index_dropped_offset(n_voyages, i, j) ==
    n_voyages * i - ((i * (i - 1)) \div 2) + j - i - 1

flat_index(n_voyages, i, j) ==
    n_voyages * i - ((i * (i + 1)) \div 2) + j - i - 1

number_combinations(n_voyages) == (n_voyages * (n_voyages - 1)) \div 2

proximity_parallel(i, j, i_coords, j_coords) == <<i, j, dtw(i_coords, j_coords)>>


\* -------------------------------------------------------------- the state
VARIABLES
    compressed_voyages, \* the corpus: the dict's values in key order
    name,               \* the multiprocessing safeguard argument
    nprocs,             \* mp.cpu_count()
    pc,                 \* where calc_proximity_matrix (or its caller) stands
    bi, bj,             \* the loop variables i, j of the input construction
    inputs,             \* the object array of work items, slot k |-> None or a tuple
    writes,             \* how often each slot of inputs has been assigned
    task,               \* the pool's view of work item k
    out,                \* what the worker of item k returned
    arrival,            \* the items in the order their workers finished
    result,             \* the list pool.starmap returned
    distances,          \* the matrix under construction
    ai,                 \* position of the assembly loop in result
    ret,                \* what calc_proximity_matrix handed to its caller
    stored,             \* what compare_voyages gave to settings.write_data
    fitted,             \* what predict_voyages gave to DBSCAN.fit_predict
    entry,              \* "predict_voyages", or "predict_single_voyage" called directly
    train_set,          \* the training corpus: the dict's values in key order
    test_set,           \* the voyages to predict, in key order
    epsilon,            \* the clustering radius argument
    ppc,                \* where predict_voyages / predict_single_voyage stands
    base_distances,     \* the training matrix
    train_labels,       \* fit_predict of the training matrix
    ti,                 \* position of the loop over test_set
    new_distance_array, \* predict_single_voyage: result of calc_extra_distance
    new_distance_matrix,\* predict_single_voyage: result of expand_distance_matrix
    label,              \* predict_single_voyage: the returned label
    test_predictions,   \* predict_voyages: the labels collected so far
    xpc,                \* where a call of expand_distance_matrix stands
    x_matrix,        \* expand_distance_matrix: first argument
    x_distances,      \* expand_distance_matrix: second argument
    expanded,           \* expand_distance_matrix: the returned matrix
    lpc,                \* where the labelling stages stand
    voyage_dict,        \* cluster_voyages: the corpus, values in key order
    clustering_eps,     \* settings.clustering_eps
    voyage_clusters,    \* cluster ids per voyage, in key order
    flags_by,           \* which routine derived the anomaly flags
    flags,              \* the anomaly flags per voyage
    map_input,          \* what make_voyage_maps hands to create_map.main
    outliers,           \* the voyages create_map.main puts in 'Cluster outlier'
    ev_entry,           \* which evaluation script runs: "holdout" or "kfold"
    ev_corpus,          \* the script's compressed_voyages, values in key order
    epc,                \* where the evaluation script stands
    ev_oracle,          \* voyage_classes_all: the oracle flag of every voyage
    ev_train,           \* the train identifiers of the partition
    ev_test,            \* the test identifiers of the partition
    train_pred,         \* predict_voyages: train_predictions
    test_pred,          \* predict_voyages: test_predictions
    train_bin,          \* make_binary_class(train_pred)
    test_bin,           \* make_binary_class(test_pred)
    y_pred,             \* the merged predicted flags
    y_true,             \* the oracle flags of the keys of y_pred
    cm,                 \* the (oracle flag, predicted flag) pairs the matrix counts
    spc,                \* where the two simplifications of one voyage stand
    s_coords,           \* compute_compressed_voyage: coords
    s_eps1, s_eps2,     \* the two tolerances, s_eps1 <= s_eps2
    s_mask1, s_mask2,   \* rdp's mask of retained rows under each tolerance
    s_out1, s_out2,     \* the compressed coordinates under each tolerance
    qpc,                \* where run_pipeline stands
    cfg_compression_eps,\* the configuration file's compression_eps
    cfg_clustering_eps, \* the configuration file's clustering_eps
    cfg_stages,         \* the configuration file's stages
    cpus,               \* mp.cpu_count() on the machine of the run
    frame,              \* the voyages of the feature DataFrame, in voyage_id order
    settings,           \* pipeline_settings, once constructed
    data,               \* what run_features returned
    stage_voyages,      \* run_pipeline's voyage_dict: what compress_voyages returned
    pools,              \* how many worker pools have been created
    pool_requests,      \* every mp.Pool(processes=...) call of the run so far
    run_name,           \* the name argument of run_pipeline
    voyage_map,         \* what make_voyage_maps returned
    files,              \* what the data files of the output folder hold
    written,            \* the files written during the run
    corpus_in,          \* the corpus handed to calc_proximity_matrix
    proximity_matrix,   \* what compare_voyages returned
    stage_clusters,     \* what cluster_voyages returned
    failed_in,          \* the stage that raised
    dpc,                \* which distances of one pair have been computed
    d_a, d_b,           \* the two coordinate arrays
    d_ab,               \* outcome of proximity_parallel(i, j, d_a, d_b)
    d_ba,               \* outcome of proximity_parallel(j, i, d_b, d_a)
    d_aa,               \* outcome of proximity_parallel(i, i, d_a, d_a)
    d_extra,            \* outcome of calc_extra_distance({i: d_a}, d_b)
    r_train,            \* the training voyages every invocation is given
    r_matrix,           \* the caller's distance matrix of r_train
    r_voyage,           \* the voyage every predict_single_voyage call is given
    r_eps,              \* the radius every invocation is given
    r_runs,             \* the invocations so far: what each saw and returned
    vpc,                \* where _voyage_per_ship is
    v_dataf,            \* the points of one ship, as the group is passed in
    v_sorted,           \* dataf after sort_values(timestamp)
    v_mask,             \* the mask of the rows that start a voyage
    voyage_temp         \* the column voyage_temp

prox_vars == <<compressed_voyages, name, nprocs, pc, bi, bj, inputs, writes, task,
               out, arrival, result, distances, ai, ret, stored, fitted>>

pred_vars == <<entry, train_set, test_set, epsilon, ppc, base_distances, train_labels,
               ti, new_distance_array, new_distance_matrix, label, test_predictions>>

exp_vars == <<xpc, x_matrix, x_distances, expanded>>

lab_vars == <<lpc, voyage_dict, clustering_eps, voyage_clusters, flags_by, flags,
              map_input, outliers>>

eval_vars == <<ev_entry, ev_corpus, epc, ev_oracle, ev_train, ev_test, train_pred,
               test_pred, train_bin, test_bin, y_pred, y_true, cm>>

\* The variables of the evaluation scripts and of the stages modelled after them.
simp_vars == <<spc, s_coords, s_eps1, s_eps2, s_mask1, s_mask2, s_out1, s_out2>>

pipe_vars == <<qpc, cfg_compression_eps, cfg_clustering_eps, cfg_stages, cpus, frame,
               settings, data, stage_voyages, pools, corpus_in, proximity_matrix,
               stage_clusters, failed_in, pool_requests, run_name,
               voyage_map, files, written>>

dist_vars == <<dpc, d_a, d_b, d_ab, d_ba, d_aa, d_extra>>

rep_vars == <<r_train, r_matrix, r_voyage, r_eps, r_runs>>

voy_vars == <<vpc, v_dataf, v_sorted, v_mask, voyage_temp>>

later_vars == <<eval_vars, simp_vars, pipe_vars, dist_vars, rep_vars, voy_vars>>

vars == <<prox_vars, pred_vars, exp_vars, lab_vars, later_vars>>

\* What the evaluation scripts leave alone.
outside_eval == <<prox_vars, pred_vars, exp_vars, lab_vars, simp_vars, pipe_vars,
                  dist_vars, rep_vars, voy_vars>>

\* What a simplification on its own leaves alone.
outside_simp == <<prox_vars, pred_vars, exp_vars, lab_vars, eval_vars, pipe_vars,
                  dist_vars, rep_vars, voy_vars>>

\* What run_pipeline's stages leave alone.
outside_pipe == <<prox_vars, pred_vars, exp_vars, lab_vars, eval_vars, simp_vars,
                  dist_vars, rep_vars, voy_vars>>

\* What the distance of one pair leaves alone.
outside_dist == <<prox_vars, pred_vars, exp_vars, lab_vars, eval_vars, simp_vars,
                  pipe_vars, rep_vars, voy_vars>>

\* What repeated invocations of the clustering leave alone.
outside_rep == <<prox_vars, pred_vars, exp_vars, lab_vars, eval_vars, simp_vars,
                 pipe_vars, dist_vars, voy_vars>>

\* What _voyage_per_ship leaves alone.
outside_voy == <<prox_vars, pred_vars, exp_vars, lab_vars, eval_vars, simp_vars,
                 pipe_vars, dist_vars, rep_vars>>

\* What the steps of calc_proximity_matrix and of its callers leave alone.
outside_prox == <<pred_vars, exp_vars, lab_vars, later_vars>>

\* What the steps of predict_voyages and predict_single_voyage leave alone.
outside_pred == <<prox_vars, exp_vars, lab_vars, later_vars>>

\* What a call of expand_distance_matrix on its own leaves alone.
outside_exp == <<prox_vars, pred_vars, lab_vars, later_vars>>

\* What the labelling stages leave alone.
outside_lab == <<prox_vars, pred_vars, exp_vars, later_vars>>

n_voyages == Len(compressed_voyages)

Slots == 0..(number_combinations(n_voyages) - 1)

\* Corpora of the pairwise engine: any mix of well-formed and degenerate voyages.
ProxShapes == {Degenerate, OnePoint, StraightA, StraightB}

RECURSIVE SeqsUpTo(_, _)
SeqsUpTo(S, n) ==
    IF n = 0 THEN {<<>>}
    ELSE LET shorter == SeqsUpTo(S, n - 1)
         IN shorter \cup {Append(s, x) : s \in {t \in shorter : Len(t) = n - 1}, x \in S}

\* No call of calc_proximity_matrix is in progress.
IdleProx ==
    /\ compressed_voyages = <<>>
    /\ name = "name"
    /\ nprocs = 1
    /\ pc = "idle"
    /\ bi = 0
    /\ bj = 0
    /\ inputs = <<>>
    /\ writes = <<>>
    /\ task = <<>>
    /\ out = <<>>
    /\ arrival = <<>>
    /\ result = None
    /\ distances = None
    /\ ai = 0
    /\ ret = None
    /\ stored = None
    /\ fitted = None

\* No call of predict_voyages or predict_single_voyage is in progress.
IdlePredict ==
    /\ entry = "none"
    /\ train_set = <<>>
    /\ test_set = <<>>
    /\ epsilon = 0
    /\ ppc = "idle"
    /\ base_distances = None
    /\ train_labels = None
    /\ ti = 0
    /\ new_distance_array = None
    /\ new_distance_matrix = None
    /\ label = None
    /\ test_predictions = <<>>

\* No stand-alone call of expand_distance_matrix is in progress.
IdleExpand ==
    /\ xpc = "idle"
    /\ x_matrix = <<>>
    /\ x_distances = <<>>
    /\ expanded = None

\* No labelling stage is in progress.
IdleLabels ==
    /\ lpc = "idle"
    /\ voyage_dict = <<>>
    /\ clustering_eps = 0
    /\ voyage_clusters = None
    /\ flags_by = "none"
    /\ flags = None
    /\ map_input = None
    /\ outliers = {}

\* No evaluation script is running.
IdleEval ==
    /\ ev_entry = "none"
    /\ ev_corpus = <<>>
    /\ epc = "idle"
    /\ ev_oracle = None
    /\ ev_train = <<>>
    /\ ev_test = <<>>
    /\ train_pred = None
    /\ test_pred = None
    /\ train_bin = None
    /\ test_bin = None
    /\ y_pred = None
    /\ y_true = None
    /\ cm = None

\* No simplification on its own is in progress.
IdleSimplify ==
    /\ spc = "idle"
    /\ s_coords = <<>>
    /\ s_eps1 = 0
    /\ s_eps2 = 0
    /\ s_mask1 = None
    /\ s_mask2 = None
    /\ s_out1 = None
    /\ s_out2 = None

\* run_pipeline has not been called.
IdlePipeline ==
    /\ qpc = "idle"
    /\ cfg_compression_eps = 0
    /\ cfg_clustering_eps = 0
    /\ cfg_stages = {}
    /\ cpus = 1
    /\ frame = <<>>
    /\ settings = None
    /\ data = None
    /\ stage_voyages = None
    /\ pools = 0
    /\ pool_requests = <<>>
    /\ corpus_in = None
    /\ proximity_matrix = None
    /\ stage_clusters = None
    /\ failed_in = "none"
    /\ run_name = "name"
    /\ voyage_map = None
    /\ files = <<>>
    /\ written = {}

\* No distance of a single pair is being computed.
IdleDistance ==
    /\ dpc = {}
    /\ d_a = <<>>
    /\ d_b = <<>>
    /\ d_ab = None
    /\ d_ba = None
    /\ d_aa = None
    /\ d_extra = None

\* No clustering is being repeated.
IdleRepeat ==
    /\ r_train = <<>>
    /\ r_matrix = <<>>
    /\ r_voyage = <<>>
    /\ r_eps = 0
    /\ r_runs = <<>>

\* No ship's points are being grouped into voyages.
IdleVoyage ==
    /\ vpc = "idle"
    /\ v_dataf = <<>>
    /\ v_sorted = <<>>
    /\ v_mask = <<>>
    /\ voyage_temp = <<>>

IdleLater ==
    /\ IdleEval
    /\ IdleSimplify
    /\ IdlePipeline
    /\ IdleDistance
    /\ IdleRepeat
    /\ IdleVoyage

\* Nothing of the earlier groups is in progress.
IdleEarlier ==
    /\ IdleProx
    /\ IdlePredict
    /\ IdleExpand
    /\ IdleLabels

InitProx ==
    /\ compressed_voyages \in SeqsUpTo(ProxShapes, MaxVoyages)
    /\ name \in {"__main__", "name"}
    /\ nprocs \in 1..MaxCpu
    /\ pc = "call"
    /\ bi = 0
    /\ bj = 0
    /\ inputs = <<>>
    /\ writes = <<>>
    /\ task = <<>>
    /\ out = <<>>
    /\ arrival = <<>>
    /\ result = None
    /\ distances = None
    /\ ai = 0
    /\ ret = None
    /\ stored = None
    /\ fitted = None
    /\ IdlePredict
    /\ IdleExpand
    /\ IdleLabels
    /\ IdleLater

\* Lines 118-126: the safeguard, then the empty object array.
Enter ==
    /\ pc = "call"
    /\ IF name = "__main__"
       THEN /\ pc' = "build"
            /\ inputs' = [k \in Slots |-> None]
            /\ writes' = [k \in Slots |-> 0]
            /\ bi' = 0
            /\ bj' = 1
       ELSE /\ pc' = "returned"
            /\ UNCHANGED <<inputs, writes, bi, bj>>
    /\ UNCHANGED <<compressed_voyages, name, nprocs, task, out, arrival, result,
                   distances, ai, ret, stored, fitted>>
    /\ UNCHANGED outside_prox

\* numpy indexing of an array of the given length: negative indices count from
\* the end; None when the index is out of bounds (IndexError).
ArrayIndex(length, f) ==
    IF 0 <= f /\ f < length THEN Some(f)
    ELSE IF f < 0 /\ -length <= f THEN Some(f + length)
    ELSE None

\* Lines 127-135: one iteration of the double loop.
BuildStep ==
    /\ pc = "build"
    /\ bi < n_voyages - 1
    /\ LET slot == ArrayIndex(number_combinations(n_voyages),
                              flat_index(n_voyages, bi, bj))
       IN IF slot = None
          THEN /\ pc' = "index_error"
               /\ UNCHANGED <<inputs, writes, bi, bj>>
          ELSE /\ inputs' = [inputs EXCEPT ![slot[1]] =
                     Some(<<bi, bj, compressed_voyages[bi + 1], compressed_voyages[bj + 1]>>)]
               /\ writes' = [writes EXCEPT ![slot[1]] = @ + 1]
               /\ IF bj + 1 < n_voyages
                  THEN bj' = bj + 1 /\ bi' = bi
                  ELSE bi' = bi + 1 /\ bj' = bi + 2
               /\ pc' = pc
    /\ UNCHANGED <<compressed_voyages, name, nprocs, task, out, arrival, result,
                   distances, ai, ret, stored, fitted>>
    /\ UNCHANGED outside_prox

\* Lines 137-142: the pool is created and every item is submitted.
PoolStart ==
    /\ pc = "build"
    /\ bi >= n_voyages - 1
    /\ pc' = "run"
    /\ task' = [k \in Slots |-> "pending"]
    /\ out' = [k \in Slots |-> None]
    /\ UNCHANGED <<compressed_voyages, name, nprocs, bi, bj, inputs, writes, arrival,
                   result, distances, ai, ret, stored, fitted>>
    /\ UNCHANGED outside_prox

\* Pool._map_async: the items are cut into chunks of this size.
chunksize ==
    LET total == number_combinations(n_voyages)
        q == total \div (nprocs * 4)
        extra == total % (nprocs * 4)
    IN IF extra # 0 THEN q + 1 ELSE q

ChunkOf(k) == k \div chunksize

ChunkItems(c) == {k \in DOMAIN task : ChunkOf(k) = c}

ChunkStarted(c) == \E k \in ChunkItems(c) : task[k] # "pending"

\* A chunk reports when all its items are done or one of them has raised; the
\* items after a raising one are never run.
ChunkFinished(c) ==
    \/ \A k \in ChunkItems(c) : task[k] = "done"
    \/ \E k \in ChunkItems(c) : task[k] = "failed"

Chunks == {ChunkOf(k) : k \in DOMAIN task}

BusyWorkers == Cardinality({c \in Chunks : ChunkStarted(c) /\ ~ChunkFinished(c)})

\* A free worker takes the next chunk of the task queue, or a busy one goes on
\* to the next item of its chunk.
TaskStart(k) ==
    /\ pc = "run"
    /\ k \in DOMAIN task
    /\ task[k] = "pending"
    /\ IF k % chunksize = 0
       THEN /\ \A c \in Chunks : c < ChunkOf(k) => ChunkStarted(c)
            /\ BusyWorkers < nprocs
       ELSE task[k - 1] = "done"
    /\ task' = [task EXCEPT ![k] = "running"]
    /\ UNCHANGED <<compressed_voyages, name, nprocs, pc, bi, bj, inputs, writes, out,
                   arrival, result, distances, ai, ret, stored, fitted>>
    /\ UNCHANGED outside_prox

run_task_placeholder(args) ==
    IF args = None THEN None
    ELSE IF DtwRaises(args[1][3], args[1][4]) THEN Some(<<args[1][1], args[1][2], 0>>)
    ELSE Some(proximity_parallel(args[1][1], args[1][2], args[1][3], args[1][4]))

\* The worker's call proximity_parallel(*args): None when it raises (an unfilled
\* slot cannot be unpacked; dtw rejects the pair).
run_task(args) ==
    IF args = None THEN None
    ELSE IF DtwRaises(args[1][3], args[1][4]) THEN None
    ELSE Some(proximity_parallel(args[1][1], args[1][2], args[1][3], args[1][4]))

\* A worker finishes its item, in any order among the running ones.
TaskFinish(k) ==
    /\ pc = "run"
    /\ k \in DOMAIN task
    /\ task[k] = "running"
    /\ LET r == run_task(inputs[k])
       IN /\ out' = [out EXCEPT ![k] = r]
          /\ task' = [task EXCEPT ![k] = IF r = None THEN "failed" ELSE "done"]
    /\ arrival' = Append(arrival, k)
    /\ UNCHANGED <<compressed_voyages, name, nprocs, pc, bi, bj, inputs, writes,
                   result, distances, ai, ret, stored, fitted>>
    /\ UNCHANGED outside_prox

\* starmap returning as soon as no item is being worked on.
NoneRunning == \A k \in DOMAIN task : task[k] # "running"

AnyCollected == \E k \in DOMAIN task : task[k] = "done"

\* pool.starmap blocks until every item has a result.
AllCollected == \A k \in DOMAIN task : task[k] = "done"

RECURSIVE Present(_, _)
Present(outp, k) ==
    IF k \notin DOMAIN outp THEN <<>>
    ELSE (IF outp[k] = None THEN <<>> ELSE <<outp[k][1]>>) \o Present(outp, k + 1)

starmap_result_zip_unordered(inp, outp, arrived) ==
    [k \in 1..Len(arrived) |->
        <<inp[k - 1][1][1], inp[k - 1][1][2], outp[arrived[k]][1][3]>>]

\* The list starmap returns: the workers' return values in submission order.
starmap_result(inp, outp, arrived) == Present(outp, 0)

\* Lines 142-149: starmap returns, the zero matrix is allocated.
StarmapReturn ==
    /\ pc = "run"
    /\ AllCollected
    /\ result' = Some(starmap_result(inputs, out, arrival))
    /\ distances' = Some(Zeros(n_voyages))
    /\ ai' = 0
    /\ pc' = "assemble"
    /\ UNCHANGED <<compressed_voyages, name, nprocs, bi, bj, inputs, writes, task, out,
                   arrival, ret, stored, fitted>>
    /\ UNCHANGED outside_prox

\* pool.starmap re-raises a worker's exception in the caller, once every chunk
\* has reported.
StarmapRaise ==
    /\ pc = "run"
    /\ \A c \in Chunks : ChunkFinished(c)
    /\ \E k \in DOMAIN task : task[k] = "failed"
    /\ pc' = "raised"
    /\ UNCHANGED <<compressed_voyages, name, nprocs, bi, bj, inputs, writes, task, out,
                   arrival, result, distances, ai, ret, stored, fitted>>
    /\ UNCHANGED outside_prox

place_on_diagonal(M, item) == [M EXCEPT ![item[1] + 1][item[1] + 1] = item[3]]

\* Lines 151-152: distances[i, j] = item[2].
place(M, item) == [M EXCEPT ![item[1] + 1][item[2] + 1] = item[3]]

\* Lines 150-152: one iteration of the assembly loop.
AssembleStep ==
    /\ pc = "assemble"
    /\ ai < Len(result[1])
    /\ distances' = Some(place(distances[1], result[1][ai + 1]))
    /\ ai' = ai + 1
    /\ UNCHANGED <<compressed_voyages, name, nprocs, pc, bi, bj, inputs, writes, task,
                   out, arrival, result, ret, stored, fitted>>
    /\ UNCHANGED outside_prox

mirror_forgotten(M) == M

\* Line 154: distances += distances.T
mirror(M) == PlusTranspose(M)

\* Lines 154-159: the mirror is added and the matrix is returned.
Return ==
    /\ pc = "assemble"
    /\ ai >= Len(result[1])
    /\ distances' = Some(mirror(distances[1]))
    /\ ret' = distances'
    /\ pc' = "returned"
    /\ UNCHANGED <<compressed_voyages, name, nprocs, bi, bj, inputs, writes, task, out,
                   arrival, result, ai, stored, fitted>>
    /\ UNCHANGED outside_prox

\* main_pipeline.compare_voyages, lines 96-100: the value is written out.
CompareStore ==
    /\ pc = "returned"
    /\ stored' = Some(ret)
    /\ pc' = "stored"
    /\ UNCHANGED <<compressed_voyages, name, nprocs, bi, bj, inputs, writes, task, out,
                   arrival, result, distances, ai, ret, fitted>>
    /\ UNCHANGED outside_prox

\* cluster_predict.predict_voyages, lines 56-58: the value goes to the clusterer.
PredictFit ==
    /\ pc = "returned"
    /\ fitted' = Some(ret)
    /\ pc' = "fitted"
    /\ UNCHANGED <<compressed_voyages, name, nprocs, bi, bj, inputs, writes, task, out,
                   arrival, result, distances, ai, ret, stored>>
    /\ UNCHANGED outside_prox

NextProx ==
    \/ Enter
    \/ BuildStep
    \/ PoolStart
    \/ \E k \in 0..(number_combinations(MaxVoyages) - 1) : TaskStart(k)
    \/ \E k \in 0..(number_combinations(MaxVoyages) - 1) : TaskFinish(k)
    \/ StarmapReturn
    \/ StarmapRaise
    \/ AssembleStep
    \/ Return
    \/ CompareStore
    \/ PredictFit

Spec == InitProx /\ [][NextProx]_vars


\* ------------------------------------------ calc_proximity_matrix, as a value
Pairs(n) == {p \in (0..(n - 1)) \X (0..(n - 1)) : p[1] < p[2]}

\* Lines 149-152 once the loop is over: entry (i, j), i < j, holds the distance
\* of the pair, every other entry is still zero.
upper_triangle(voys) ==
    [r \in 1..Len(voys) |-> [c \in 1..Len(voys) |->
        IF r < c THEN dtw(voys[r], voys[c]) ELSE 0]]

\* What calc_proximity_matrix(voys, "__main__") hands back: None when it raises.
calc_proximity_matrix(voys) ==
    IF \E p \in Pairs(Len(voys)) : DtwRaises(voys[p[1] + 1], voys[p[2] + 1])
    THEN None
    ELSE Some(ndarray(PlusTranspose(ndarray(upper_triangle(voys)))))

\* ----------------------------------------------------------------- DBSCAN
\* sklearn's default min_samples, which no call of the repository overrides.
min_samples == 5

\* radius_neighbors on a precomputed matrix: the columns of row i within eps,
\* the point itself included, in index order.
RECURSIVE neighborhood(_, _, _, _)
neighborhood(M, i, eps, c) ==
    IF c > Len(M) THEN <<>>
    ELSE (IF M[i][c] <= eps THEN <<c>> ELSE <<>>) \o neighborhood(M, i, eps, c + 1)

is_core(M, i, eps) == Len(neighborhood(M, i, eps, 1)) >= min_samples

RECURSIVE push_unlabelled(_, _, _, _)
push_unlabelled(stack, neighb, labels, k) ==
    IF k > Len(neighb) THEN stack
    ELSE push_unlabelled(IF labels[neighb[k]] = -1 THEN Append(stack, neighb[k]) ELSE stack,
                         neighb, labels, k + 1)

\* dbscan_inner's depth-first expansion of one cluster from point i.
RECURSIVE expand_cluster(_, _, _, _, _, _)
expand_cluster(M, eps, labels, i, stack, label_num) ==
    LET fresh == labels[i] = -1
        labels2 == IF fresh THEN [labels EXCEPT ![i] = label_num] ELSE labels
        stack2 == IF fresh /\ is_core(M, i, eps)
                  THEN push_unlabelled(stack, neighborhood(M, i, eps, 1), labels2, 1)
                  ELSE stack
    IN IF Len(stack2) = 0 THEN labels2
       ELSE expand_cluster(M, eps, labels2, stack2[Len(stack2)],
                           SubSeq(stack2, 1, Len(stack2) - 1), label_num)

\* dbscan_inner's outer loop over the points in index order.
RECURSIVE dbscan_inner(_, _, _, _, _)
dbscan_inner(M, eps, labels, i, label_num) ==
    IF i > Len(M) THEN labels
    ELSE IF labels[i] # -1 \/ ~is_core(M, i, eps)
         THEN dbscan_inner(M, eps, labels, i + 1, label_num)
         ELSE dbscan_inner(M, eps, expand_cluster(M, eps, labels, i, <<>>, label_num),
                           i + 1, label_num + 1)

IsSquare(M) == \A r \in 1..Len(M) : Len(M[r]) = Len(M)

\* DBSCAN(eps=eps, metric="precomputed").fit_predict(M): the labels, or None
\* when sklearn rejects the input (no sample, not square, eps not positive).
DBSCAN(M, eps) ==
    IF Len(M) = 0 \/ ~IsSquare(M) \/ eps <= 0 THEN None
    ELSE Some(dbscan_inner(M, eps, [r \in 1..Len(M) |-> -1], 1, 0))

\* ------------------------------------------------------- cluster_predict.py
calc_extra_distance_reversed(train_voyages, new_voyage) ==
    [k \in 1..Len(train_voyages) |->
        dtw(train_voyages[Len(train_voyages) + 1 - k], new_voyage)]

\* Every distance taken from the first training voyage.
calc_extra_distance_to_first(train_voyages, new_voyage) ==
    [k \in 1..Len(train_voyages) |-> dtw(train_voyages[1], new_voyage)]

\* Lines 19-23, defined where no dtw call raises.
calc_extra_distance(train_voyages, new_voyage) ==
    [k \in 1..Len(train_voyages) |-> dtw(train_voyages[k], new_voyage)]

\* np.expand_dims(v, axis=0): one row.
expand_dims_first(v) == <<v>>

\* np.expand_dims(v, axis=-1): one column.
expand_dims_last(v) == [k \in 1..Len(v) |-> <<v[k]>>]

\* np.append(A, B, axis=0): the rows of B after the rows of A.
append_axis0(A, B) == A \o B

\* np.append(A, B, axis=1): each row of A extended by the same row of B.
append_axis1(A, B) == [r \in 1..Len(A) |-> A[r] \o B[r]]

expand_distance_matrix_column_first(orig_matrix, new_distances) ==
    LET temp_matrix == append_axis0(orig_matrix, expand_dims_first(new_distances))
        temp_vector == expand_dims_last(Append(new_distances, 0))
    IN append_axis1(temp_vector, temp_matrix)

\* Lines 26-31.
expand_distance_matrix(orig_matrix, new_distances) ==
    LET temp_matrix == append_axis0(orig_matrix, expand_dims_first(new_distances))
        temp_vector == expand_dims_last(Append(new_distances, 0))
    IN append_axis1(temp_matrix, temp_vector)

\* --------------------------------- predict_voyages, predict_single_voyage
MaxTrain == 4
MaxTest == 1

\* Well-formed compressed voyages (two points or more, compress_voyages line 84).
PredictShapes == {StraightA, StraightB, Loop}

\* Radii: 4 joins the two straight paths only, 12 is the scripts' literal.
EpsValues == {4, 12}

InitPredict ==
    /\ IdleLater
    /\ IdleProx
    /\ IdleExpand
    /\ IdleLabels
    /\ entry \in {"predict_voyages", "predict_single_voyage"}
    /\ train_set \in SeqsUpTo(PredictShapes, MaxTrain)
    /\ test_set \in SeqsUpTo(PredictShapes, MaxTest)
    /\ entry = "predict_single_voyage" => Len(test_set) = 1
    /\ epsilon \in EpsValues
    /\ ppc = IF entry = "predict_voyages" THEN "baseline" ELSE "psv_call"
    /\ base_distances = IF entry = "predict_voyages" THEN None
                        ELSE calc_proximity_matrix(train_set)
    /\ train_labels = None
    /\ ti = 0
    /\ new_distance_array = None
    /\ new_distance_matrix = None
    /\ label = None
    /\ test_predictions = <<>>

\* predict_voyages, lines 52-61: the training matrix and its clustering.
Baseline ==
    /\ ppc = "baseline"
    /\ LET b == calc_proximity_matrix(train_set)
           l == IF b = None THEN None ELSE DBSCAN(b[1], epsilon)
       IN /\ base_distances' = b
          /\ train_labels' = l
          /\ ppc' = IF l = None THEN "raised" ELSE "loop"
    /\ UNCHANGED <<entry, train_set, test_set, epsilon, ti, new_distance_array,
                   new_distance_matrix, label, test_predictions>>
    /\ UNCHANGED outside_pred

\* predict_voyages, lines 66-69: the next test voyage is handed over.
LoopNext ==
    /\ ppc = "loop"
    /\ ti < Len(test_set)
    /\ ppc' = "psv_call"
    /\ UNCHANGED <<entry, train_set, test_set, epsilon, base_distances, train_labels, ti,
                   new_distance_array, new_distance_matrix, label, test_predictions>>
    /\ UNCHANGED outside_pred

\* predict_voyages, line 72: the loop is over.
PredictReturn ==
    /\ ppc = "loop"
    /\ ti >= Len(test_set)
    /\ ppc' = "pv_done"
    /\ UNCHANGED <<entry, train_set, test_set, epsilon, base_distances, train_labels, ti,
                   new_distance_array, new_distance_matrix, label, test_predictions>>
    /\ UNCHANGED outside_pred

new_voyage == test_set[ti + 1]

\* predict_single_voyage, line 37.
SingleDistances ==
    /\ ppc = "psv_call"
    /\ IF \E k \in 1..Len(train_set) : DtwRaises(train_set[k], new_voyage)
       THEN /\ ppc' = "raised"
            /\ UNCHANGED new_distance_array
       ELSE /\ new_distance_array' = Some(calc_extra_distance(train_set, new_voyage))
            /\ ppc' = "psv_expand"
    /\ UNCHANGED <<entry, train_set, test_set, epsilon, base_distances, train_labels, ti,
                   new_distance_matrix, label, test_predictions>>
    /\ UNCHANGED outside_pred

\* predict_single_voyage, line 38.
SingleExpand ==
    /\ ppc = "psv_expand"
    /\ new_distance_matrix' =
          Some(expand_distance_matrix(base_distances[1], new_distance_array[1]))
    /\ ppc' = "psv_cluster"
    /\ UNCHANGED <<entry, train_set, test_set, epsilon, base_distances, train_labels, ti,
                   new_distance_array, label, test_predictions>>
    /\ UNCHANGED outside_pred

\* The label of the first training voyage instead of the new voyage's.
last_label_first(labels) == labels[1]

\* fit_predict(...)[-1]
last_label(labels) == labels[Len(labels)]

\* predict_single_voyage, lines 39-41.
SingleCluster ==
    /\ ppc = "psv_cluster"
    /\ LET l == DBSCAN(new_distance_matrix[1], epsilon)
       IN IF l = None
          THEN /\ ppc' = "raised"
               /\ UNCHANGED label
          ELSE /\ label' = Some(last_label(l[1]))
               /\ ppc' = "psv_ret"
    /\ UNCHANGED <<entry, train_set, test_set, epsilon, base_distances, train_labels, ti,
                   new_distance_array, new_distance_matrix, test_predictions>>
    /\ UNCHANGED outside_pred

\* predict_voyages, line 70: the label is recorded; the callee's locals are gone.
PredictUpdate ==
    /\ ppc = "psv_ret"
    /\ entry = "predict_voyages"
    /\ test_predictions' = Append(test_predictions, label[1])
    /\ ti' = ti + 1
    /\ new_distance_array' = None
    /\ new_distance_matrix' = None
    /\ label' = None
    /\ ppc' = "loop"
    /\ UNCHANGED <<entry, train_set, test_set, epsilon, base_distances, train_labels>>
    /\ UNCHANGED outside_pred

NextPredict ==
    \/ Baseline
    \/ LoopNext
    \/ PredictReturn
    \/ SingleDistances
    \/ SingleExpand
    \/ SingleCluster
    \/ PredictUpdate

SpecPredict == InitPredict /\ [][NextPredict]_vars

\* ------------------------------------- expand_distance_matrix on its own
MaxDim == 2

\* Entries of the argument matrices: non-zero, so that the new corner shows.
EntryValues == {1, 2}

RECURSIVE Vectors(_)
Vectors(n) ==
    IF n = 0 THEN {<<>>}
    ELSE {Append(v, x) : v \in Vectors(n - 1), x \in EntryValues}

RECURSIVE Matrices(_, _)
Matrices(rows, n) ==
    IF rows = 0 THEN {<<>>}
    ELSE {Append(M, v) : M \in Matrices(rows - 1, n), v \in Vectors(n)}

InitExpand ==
    /\ IdleLater
    /\ IdleProx
    /\ IdlePredict
    /\ IdleLabels
    /\ xpc = "call"
    /\ \E n \in 0..MaxDim :
          /\ x_matrix \in Matrices(n, n)
          /\ x_distances \in Vectors(n)
    /\ expanded = None

\* cluster_predict.py lines 26-31, one call.
ExpandCall ==
    /\ xpc = "call"
    /\ expanded' = Some(expand_distance_matrix(x_matrix, x_distances))
    /\ xpc' = "done"
    /\ UNCHANGED <<x_matrix, x_distances>>
    /\ UNCHANGED outside_exp

NextExpand == ExpandCall

SpecExpand == InitExpand /\ [][NextExpand]_vars

\* ------------------------------------------------------ the labelling stages
MaxCorpus == 3
MaxCopies == 5

\* prediction_pipeline.main's literal radius.
cluster_eps == 12

\* The radius of the oracle clustering in cluster_predict's script.
oracle_eps == 12

\* The radius cluster_predict's script passes to predict_voyages.
evaluation_eps == 12

\* The flag raised for the positive cluster ids instead of the negative ones.
make_binary_class_positive_ids(predictions) ==
    [k \in 1..Len(predictions) |-> IF predictions[k] > 0 THEN 1 ELSE 0]

\* cluster_predict.py lines 74-75.
make_binary_class(predictions) ==
    [k \in 1..Len(predictions) |-> IF predictions[k] < 0 THEN 1 ELSE 0]

\* cluster_predict.py lines 88-91, the oracle's flags.
voyage_classes_all(labels) ==
    [k \in 1..Len(labels) |-> IF labels[k] < 0 THEN 1 ELSE 0]

\* prediction_pipeline.py line 74.
classes(labels) ==
    [k \in 1..Len(labels) |-> IF labels[k] < 0 THEN 1 ELSE 0]

\* main_pipeline.make_voyage_maps lines 137-140: the ids are turned into flags
\* only when some voyage is noise.
map_classes(clusters) ==
    IF clusters # None /\ \E k \in 1..Len(clusters[1]) : clusters[1][k] = -1
    THEN Some([k \in 1..Len(clusters[1]) |-> IF clusters[1][k] < 0 THEN 1 ELSE 0])
    ELSE clusters

\* create_map.main lines 163-167: the voyages whose value is 1.
cluster_voyages_layer(voyage_classes) ==
    IF voyage_classes = None THEN {}
    ELSE {k \in 1..Len(voyage_classes[1]) : voyage_classes[1][k] = 1}

RECURSIVE Copies(_, _)
Copies(v, k) == IF k = 0 THEN <<>> ELSE Append(Copies(v, k - 1), v)

\* Corpora: every short one, and fleets of repeated straight paths and loops,
\* large enough for clusters to form under min_samples.
LabelCorpora ==
    SeqsUpTo(PredictShapes, MaxCorpus)
    \cup {Copies(StraightA, k) \o Copies(Loop, m) : k, m \in 0..MaxCopies}

InitLabels ==
    /\ IdleLater
    /\ IdleProx
    /\ IdlePredict
    /\ IdleExpand
    /\ lpc = "corpus"
    /\ voyage_dict \in LabelCorpora
    /\ clustering_eps \in EpsValues
    /\ voyage_clusters = None
    /\ flags_by = "none"
    /\ flags = None
    /\ map_input = None
    /\ outliers = {}

\* main_pipeline.cluster_voyages lines 119-125, on the matrix of the dtw stage.
ClusterVoyages ==
    /\ lpc = "corpus"
    /\ LET l == DBSCAN(calc_proximity_matrix(voyage_dict)[1], clustering_eps)
       IN /\ voyage_clusters' = l
          /\ lpc' = IF l = None THEN "raised" ELSE "labelled"
    /\ UNCHANGED <<voyage_dict, clustering_eps, flags_by, flags, map_input, outliers>>
    /\ UNCHANGED outside_lab

\* prediction_pipeline.main lines 69-74.
PipelineMain ==
    /\ lpc = "corpus"
    /\ LET l == DBSCAN(calc_proximity_matrix(voyage_dict)[1], cluster_eps)
       IN /\ voyage_clusters' = l
          /\ flags' = IF l = None THEN None ELSE Some(classes(l[1]))
          /\ flags_by' = "prediction_pipeline"
          /\ lpc' = IF l = None THEN "raised" ELSE "flagged"
    /\ UNCHANGED <<voyage_dict, clustering_eps, map_input, outliers>>
    /\ UNCHANGED outside_lab

\* cluster_predict.py lines 82-91: the oracle clustering and its flags.
OracleClasses ==
    /\ lpc = "corpus"
    /\ LET l == DBSCAN(calc_proximity_matrix(voyage_dict)[1], oracle_eps)
       IN /\ voyage_clusters' = l
          /\ flags' = IF l = None THEN None ELSE Some(voyage_classes_all(l[1]))
          /\ flags_by' = "oracle"
          /\ lpc' = IF l = None THEN "raised" ELSE "flagged"
    /\ UNCHANGED <<voyage_dict, clustering_eps, map_input, outliers>>
    /\ UNCHANGED outside_lab

\* cluster_predict.py lines 56-61 and 105: the training labels of predict_voyages
\* and make_binary_class on them.
MakeBinaryClass ==
    /\ lpc = "corpus"
    /\ LET l == DBSCAN(calc_proximity_matrix(voyage_dict)[1], evaluation_eps)
       IN /\ voyage_clusters' = l
          /\ flags' = IF l = None THEN None ELSE Some(make_binary_class(l[1]))
          /\ flags_by' = "make_binary_class"
          /\ lpc' = IF l = None THEN "raised" ELSE "flagged"
    /\ UNCHANGED <<voyage_dict, clustering_eps, map_input, outliers>>
    /\ UNCHANGED outside_lab

\* main_pipeline.make_voyage_maps lines 137-142, up to the call of cm.main.
MakeVoyageMaps ==
    /\ lpc = "labelled"
    /\ map_input' = map_classes(voyage_clusters)
    /\ lpc' = "mapping"
    /\ UNCHANGED <<voyage_dict, clustering_eps, voyage_clusters, flags_by, flags, outliers>>
    /\ UNCHANGED outside_lab

\* create_map.main lines 163-168.
CreateMapMain ==
    /\ lpc = "mapping"
    /\ outliers' = cluster_voyages_layer(map_input)
    /\ lpc' = "mapped"
    /\ UNCHANGED <<voyage_dict, clustering_eps, voyage_clusters, flags_by, flags, map_input>>
    /\ UNCHANGED outside_lab

NextLabels ==
    \/ ClusterVoyages
    \/ PipelineMain
    \/ MakeBinaryClass
    \/ OracleClasses
    \/ MakeVoyageMaps
    \/ CreateMapMain

SpecLabels == InitLabels /\ [][NextLabels]_vars

\* ---------------------------------------------------- the evaluation scripts
MaxEvalCorpus == 6

\* KFold(n_splits=5, ...), prediction_validation.py.
n_splits == 5

\* The radius do_k_fold_validation passes to predict_voyages.
fold_eps == 12

\* The radius of the oracle clustering in prediction_validation's script.
fold_oracle_eps == 12

\* A dict is the sequence of its <<key, value>> items in insertion order.
dict_zip(keys, values) == [k \in 1..Len(keys) |-> <<keys[k], values[k]>>]

dict_keys(d) == {d[k][1] : k \in 1..Len(d)}

dict_get(d, key) == d[CHOOSE k \in 1..Len(d) : d[k][1] = key][2]

\* dict.update: a known key keeps its place and takes the new value, a new key
\* goes to the end.
RECURSIVE dict_update(_, _)
dict_update(d, e) ==
    IF Len(e) = 0 THEN d
    ELSE LET item == Head(e)
             merged == IF item[1] \in dict_keys(d)
                       THEN [k \in 1..Len(d) |-> IF d[k][1] = item[1] THEN item ELSE d[k]]
                       ELSE Append(d, item)
         IN dict_update(merged, Tail(e))

\* cluster_predict.py lines 34-41, defined where no call raises.
predict_single_voyage(train_voyages, distance_matrix, voyage, eps) ==
    last_label(DBSCAN(ndarray(expand_distance_matrix(
                                  distance_matrix,
                                  calc_extra_distance(train_voyages, voyage))),
                      eps)[1])

\* cluster_predict.py lines 44-72: <<train_predictions, test_predictions>>.
predict_voyages(voyages, train_voyages, test_voyages, eps) ==
    LET train_voys == [k \in 1..Len(train_voyages) |-> voyages[train_voyages[k]]]
        base == calc_proximity_matrix(train_voys)[1]
        train_labs == DBSCAN(base, eps)[1]
    IN <<dict_zip(train_voyages, train_labs),
         dict_zip(test_voyages,
                  [k \in 1..Len(test_voyages) |->
                      predict_single_voyage(train_voys, base, voyages[test_voyages[k]], eps)])>>

\* make_binary_class on a dict.
binary_dict(d) ==
    dict_zip([k \in 1..Len(d) |-> d[k][1]],
             make_binary_class([k \in 1..Len(d) |-> d[k][2]]))

\* The identifiers of a set, in increasing order.
RECURSIVE Sorted(_)
Sorted(S) ==
    IF S = {} THEN <<>>
    ELSE LET least == CHOOSE x \in S : \A y \in S : x <= y
         IN <<least>> \o Sorted(S \ {least})

\* The evaluation corpora: fleets of straight paths followed by loops, all
\* well-formed, large enough for KFold.
EvalCorpora ==
    {Copies(StraightA, k) \o Copies(Loop, m) :
        k \in 0..MaxEvalCorpus, m \in 0..MaxEvalCorpus}

InitEval ==
    /\ IdleEarlier
    /\ IdleSimplify
    /\ IdlePipeline
    /\ IdleDistance
    /\ IdleRepeat
    /\ IdleVoyage
    /\ ev_entry \in {"holdout", "kfold"}
    /\ ev_corpus \in {c \in EvalCorpora : Len(c) >= n_splits /\ Len(c) <= MaxEvalCorpus}
    /\ epc = "start"
    /\ ev_oracle = None
    /\ ev_train = <<>>
    /\ ev_test = <<>>
    /\ train_pred = None
    /\ test_pred = None
    /\ train_bin = None
    /\ test_bin = None
    /\ y_pred = None
    /\ y_true = None
    /\ cm = None

ev_ids == 1..Len(ev_corpus)

\* cluster_predict.py lines 82-91 and prediction_validation.py lines 34-43: the
\* clustering of the whole corpus and its flags.
EvOracle ==
    /\ epc = "start"
    /\ LET eps == IF ev_entry = "holdout" THEN oracle_eps ELSE fold_oracle_eps
       IN ev_oracle' = Some(voyage_classes_all(
                          DBSCAN(calc_proximity_matrix(ev_corpus)[1], eps)[1]))
    /\ epc' = "oracle"
    /\ UNCHANGED <<ev_entry, ev_corpus, ev_train, ev_test, train_pred, test_pred,
                   train_bin, test_bin, y_pred, y_true, cm>>
    /\ UNCHANGED outside_eval

\* cluster_predict.py line 101: train_test_split(..., train_size=0.8): the seeded
\* shuffle picks some test set of the remaining size.
EvSplitHoldout ==
    /\ epc = "oracle"
    /\ ev_entry = "holdout"
    /\ \E S \in SUBSET ev_ids :
          /\ Cardinality(S) = Len(ev_corpus) - ((8 * Len(ev_corpus)) \div 10)
          /\ ev_test' = Sorted(S)
          /\ ev_train' = Sorted(ev_ids \ S)
    /\ epc' = "split"
    /\ UNCHANGED <<ev_entry, ev_corpus, ev_oracle, train_pred, test_pred,
                   train_bin, test_bin, y_pred, y_true, cm>>
    /\ UNCHANGED outside_eval

\* prediction_validation.py lines 53-55: one fold of KFold; the first
\* n mod n_splits folds hold one voyage more.
EvSplitFold ==
    /\ epc = "oracle"
    /\ ev_entry = "kfold"
    /\ \E S \in SUBSET ev_ids :
          /\ \/ Cardinality(S) = Len(ev_corpus) \div n_splits
             \/ /\ Len(ev_corpus) % n_splits # 0
                /\ Cardinality(S) = (Len(ev_corpus) \div n_splits) + 1
          /\ ev_test' = Sorted(S)
          /\ ev_train' = Sorted(ev_ids \ S)
    /\ epc' = "split"
    /\ UNCHANGED <<ev_entry, ev_corpus, ev_oracle, train_pred, test_pred,
                   train_bin, test_bin, y_pred, y_true, cm>>
    /\ UNCHANGED outside_eval

\* cluster_predict.py line 103 and prediction_validation.py line 15.
EvPredictVoyages ==
    /\ epc = "split"
    /\ LET eps == IF ev_entry = "holdout" THEN evaluation_eps ELSE fold_eps
           both == predict_voyages(ev_corpus, ev_train, ev_test, eps)
       IN /\ train_pred' = Some(both[1])
          /\ test_pred' = Some(both[2])
    /\ epc' = "predicted"
    /\ UNCHANGED <<ev_entry, ev_corpus, ev_oracle, ev_train, ev_test,
                   train_bin, test_bin, y_pred, y_true, cm>>
    /\ UNCHANGED outside_eval

\* cluster_predict.py line 105 and prediction_validation.py line 16.
EvBinarise ==
    /\ epc = "predicted"
    /\ train_bin' = Some(binary_dict(train_pred[1]))
    /\ test_bin' = Some(binary_dict(test_pred[1]))
    /\ epc' = "binarised"
    /\ UNCHANGED <<ev_entry, ev_corpus, ev_oracle, ev_train, ev_test, train_pred,
                   test_pred, y_pred, y_true, cm>>
    /\ UNCHANGED outside_eval

\* cluster_predict.py lines 107-108.
EvMergeHoldout ==
    /\ epc = "binarised"
    /\ ev_entry = "holdout"
    /\ y_pred' = Some(dict_update(train_bin[1], test_bin[1]))
    /\ epc' = "merged"
    /\ UNCHANGED <<ev_entry, ev_corpus, ev_oracle, ev_train, ev_test, train_pred,
                   test_pred, train_bin, test_bin, y_true, cm>>
    /\ UNCHANGED outside_eval

\* prediction_validation.py lines 18-19.
EvMergeFold ==
    /\ epc = "binarised"
    /\ ev_entry = "kfold"
    /\ y_pred' = Some(dict_update(test_bin[1], test_bin[1]))
    /\ epc' = "merged"
    /\ UNCHANGED <<ev_entry, ev_corpus, ev_oracle, ev_train, ev_test, train_pred,
                   test_pred, train_bin, test_bin, y_true, cm>>
    /\ UNCHANGED outside_eval

\* cluster_predict.py lines 110-117 and prediction_validation.py lines 20-24:
\* the pairs confusion_matrix counts, one per key of y_pred.
EvConfusion ==
    /\ epc = "merged"
    /\ LET truth == [k \in 1..Len(y_pred[1]) |->
                        <<y_pred[1][k][1], ev_oracle[1][y_pred[1][k][1]]>>]
       IN /\ y_true' = Some(truth)
          /\ cm' = Some([k \in 1..Len(truth) |-> <<truth[k][2], y_pred[1][k][2]>>])
    /\ epc' = "done"
    /\ UNCHANGED <<ev_entry, ev_corpus, ev_oracle, ev_train, ev_test, train_pred,
                   test_pred, train_bin, test_bin, y_pred>>
    /\ UNCHANGED outside_eval

NextEval ==
    \/ EvOracle
    \/ EvSplitHoldout
    \/ EvSplitFold
    \/ EvPredictVoyages
    \/ EvBinarise
    \/ EvMergeHoldout
    \/ EvMergeFold
    \/ EvConfusion

SpecEval == InitEval /\ [][NextEval]_vars

\* -------------------------------------------------------------------- rdp
\* rdp's pldist compares distances of rows to one and the same line, so the
\* model keeps the squared distance as numerator over denominator:
\* |cross(end - start, start - point)|^2 over |end - start|^2, and the squared
\* distance to start over 1 when start and end coincide.
cross2(point, start, end) ==
    (end[1] - start[1]) * (start[2] - point[2])
    - (end[2] - start[2]) * (start[1] - point[1])

pldist_num(point, start, end) ==
    IF start = end THEN SumSq(point, start, 2)
    ELSE cross2(point, start, end) * cross2(point, start, end)

pldist_den(start, end) == IF start = end THEN 1 ELSE SumSq(end, start, 2)

\* _rdp_iter's scan "for i in range(index + 1, last_index)": the first row of
\* largest distance among those still retained; <<index, dmax numerator>>.
RECURSIVE farthest(_, _, _, _, _, _, _)
farthest(M, start, last, indices, i, index, dmax) ==
    IF i >= last THEN <<index, dmax>>
    ELSE LET d == pldist_num(M[i], M[start], M[last])
         IN IF indices[i] /\ d > dmax
            THEN farthest(M, start, last, indices, i + 1, i, d)
            ELSE farthest(M, start, last, indices, i + 1, index, dmax)

exceeds_beyond_unit(dmax, den, eps) == dmax > (eps + 1) * (eps + 1) * den

exceeds_inverted(dmax, den, eps) == dmax > 0 /\ dmax <= eps * eps * den

\* "if dmax > epsilon", for a tolerance that is not negative.
exceeds(dmax, den, eps) == dmax > eps * eps * den

discard_interior_and_end(indices, start, last) ==
    [i \in 1..Len(indices) |-> IF start < i /\ i <= last THEN FALSE ELSE indices[i]]

\* "for i in range(start_index + 1, last_index): indices[i] = False"
discard_interior(indices, start, last) ==
    [i \in 1..Len(indices) |-> IF start < i /\ i < last THEN FALSE ELSE indices[i]]

\* _rdp_iter's loop "while stk": the mask once the stack is empty.
RECURSIVE rdp_iter_mask(_, _, _, _)
rdp_iter_mask(M, eps, stk, indices) ==
    IF Len(stk) = 0 THEN indices
    ELSE LET top == stk[Len(stk)]
             rest == SubSeq(stk, 1, Len(stk) - 1)
             found == farthest(M, top[1], top[2], indices, top[1] + 1, top[1], 0)
             \* no row measured, or all of them on the line: dmax is 0.0
             den == IF found[2] = 0 THEN 1 ELSE pldist_den(M[top[1]], M[top[2]])
         IN IF exceeds(found[2], den, eps)
            THEN rdp_iter_mask(M, eps, rest \o << <<top[1], found[1]>>, <<found[1], top[2]>> >>,
                               indices)
            ELSE rdp_iter_mask(M, eps, rest, discard_interior(indices, top[1], top[2]))

\* rdp_iter(M, epsilon, return_mask=True): rows are numbered from 1 here.
rdp_mask(M, eps) ==
    rdp_iter_mask(M, eps, << <<1, Len(M)>> >>, [i \in 1..Len(M) |-> TRUE])

\* M[mask]
RECURSIVE select_rows(_, _, _)
select_rows(M, mask, k) ==
    IF k > Len(M) THEN <<>>
    ELSE (IF mask[k] THEN <<M[k]>> ELSE <<>>) \o select_rows(M, mask, k + 1)

\* rdp(M, epsilon=epsilon), algo "iter".
rdp(M, eps) == select_rows(M, rdp_mask(M, eps), 1)

\* compress_and_compare_voyages.py lines 31-43.
compute_compressed_voyage(vid, coords, eps) == <<vid, rdp(coords, eps)>>

\* ------------------------------------------------ one voyage, two tolerances
MaxPoints == 4

\* Raw rows: three on one line, two off it at different distances.
SimplifyPoints == {<<0, 0>>, <<2, 0>>, <<4, 0>>, <<2, 1>>, <<2, 3>>}

\* Tolerances: none, and two that separate the rows off the line.
Tolerances == {0, 1, 2}

InitSimplify ==
    /\ IdleEarlier
    /\ IdleEval
    /\ IdlePipeline
    /\ IdleDistance
    /\ IdleRepeat
    /\ IdleVoyage
    /\ spc = "call"
    /\ s_coords \in SeqsUpTo(SimplifyPoints, MaxPoints)
    /\ s_eps1 \in Tolerances
    /\ s_eps2 \in Tolerances
    /\ s_eps1 <= s_eps2
    /\ s_mask1 = None
    /\ s_mask2 = None
    /\ s_out1 = None
    /\ s_out2 = None

\* compute_compressed_voyage under the smaller tolerance.
SimplifyFirst ==
    /\ spc \in {"call", "second"}
    /\ s_out1 = None
    /\ s_mask1' = Some(rdp_mask(s_coords, s_eps1))
    /\ s_out1' = Some(compute_compressed_voyage("vid", s_coords, s_eps1)[2])
    /\ spc' = IF spc = "call" THEN "first" ELSE "both"
    /\ UNCHANGED <<s_coords, s_eps1, s_eps2, s_mask2, s_out2>>
    /\ UNCHANGED outside_simp

\* compute_compressed_voyage under the larger tolerance.
SimplifySecond ==
    /\ spc \in {"call", "first"}
    /\ s_out2 = None
    /\ s_mask2' = Some(rdp_mask(s_coords, s_eps2))
    /\ s_out2' = Some(compute_compressed_voyage("vid", s_coords, s_eps2)[2])
    /\ spc' = IF spc = "call" THEN "second" ELSE "both"
    /\ UNCHANGED <<s_coords, s_eps1, s_eps2, s_mask1, s_out1>>
    /\ UNCHANGED outside_simp

NextSimplify ==
    \/ SimplifyFirst
    \/ SimplifySecond

SpecSimplify == InitSimplify /\ [][NextSimplify]_vars

\* ------------------------------------------------------------ run_pipeline
MaxFrame == 2

\* A row of the DataFrame whose Longitude or Latitude is not a number.
Unparsed == <<>>

\* A voyage with such a row, and one whose rows lie on a line.
Garbled == <<p00, Unparsed, p34>>
Drift == <<p00, p30, <<6, 0>>>>

\* The voyages a feature DataFrame may hold: groupby yields one row or more.
RawShapes == {OnePoint, StraightA, StraightB, Drift, Garbled}

\* The configuration file's values for compression_eps and clustering_eps.
CompressionEpsValues == {-1, 0, 1}
ClusteringEpsValues == {-1, 0, 12}

StageNames == {"features", "compression", "dtw", "clustering", "plotting"}

\* What the compressed-voyages file of an earlier run holds.
StoredCorpus == <<StraightA, StraightB>>

\* pldist subtracts the rows: a row that is not a number makes it raise as
\* soon as a segment has an interior row.
RdpRaises(coords) ==
    /\ Len(coords) >= 3
    /\ \E k \in 1..Len(coords) : coords[k] = Unparsed

\* settings.py lines 91-96: the value is accepted.
check_positive(value) == ~(value < 0)

\* pipeline_helpers.py lines 16-20: the rows of each voyage, nothing dropped.
extract_coords(voyages) == voyages

\* compress_and_compare_voyages.py line 84.
RECURSIVE more_than_one_point(_)
more_than_one_point(res) ==
    IF Len(res) = 0 THEN <<>>
    ELSE (IF Len(Head(res)[2]) > 1 THEN <<Head(res)[2]>> ELSE <<>>)
         \o more_than_one_point(Tail(res))

\* compress_and_compare_voyages.py lines 73-85 with name "__main__", once the
\* pool exists: None when a worker raised, else the dict's values.
compress_voyages(voyages, eps) ==
    IF \E k \in 1..Len(voyages) : RdpRaises(voyages[k]) THEN None
    ELSE Some(more_than_one_point(
            [k \in 1..Len(voyages) |-> compute_compressed_voyage(k, voyages[k], eps)]))

\* No safeguard: the body runs whatever the name.
guarded_always(name_arg) == TRUE

\* The safeguard of compress_voyages (line 65) and calc_proximity_matrix
\* (line 118): the body runs for this value of name only.
guarded(name_arg) == name_arg = "__main__"

\* What the files of the output folder hold before the run: the voyages of
\* the feature stage and the corpus and matrix of an earlier run.
StoredFiles ==
    [voyages |-> <<"DataFrame", frame>>,
     compressed |-> <<"dict", StoredCorpus>>,
     proximity |-> <<"ndarray", calc_proximity_matrix(StoredCorpus)[1]>>]

InitPipeline ==
    /\ IdleEarlier
    /\ IdleEval
    /\ IdleSimplify
    /\ IdleDistance
    /\ IdleRepeat
    /\ IdleVoyage
    /\ qpc = "config"
    /\ run_name \in {"__main__", "name"}
    /\ cfg_compression_eps \in CompressionEpsValues
    /\ cfg_clustering_eps \in ClusteringEpsValues
    /\ cfg_stages \in SUBSET StageNames
    /\ cpus \in 1..MaxCpu
    /\ frame \in SeqsUpTo(RawShapes, MaxFrame)
    /\ settings = None
    /\ data = None
    /\ stage_voyages = None
    /\ pools = 0
    /\ pool_requests = <<>>
    /\ corpus_in = None
    /\ proximity_matrix = None
    /\ stage_clusters = None
    /\ voyage_map = None
    /\ files = StoredFiles
    /\ written = {}
    /\ failed_in = "none"

\* main_pipeline.py lines 155-158: Settings(**general_options) and its validators.
SettingsInit ==
    /\ qpc = "config"
    /\ IF check_positive(cfg_compression_eps) /\ check_positive(cfg_clustering_eps)
       THEN /\ settings' = Some([compression_eps |-> cfg_compression_eps,
                                 clustering_eps |-> cfg_clustering_eps,
                                 stages |-> cfg_stages])
            /\ qpc' = "features"
            /\ UNCHANGED failed_in
       ELSE /\ qpc' = "rejected"
            /\ failed_in' = "config"
            /\ UNCHANGED settings
    /\ UNCHANGED <<run_name, cfg_compression_eps, cfg_clustering_eps, cfg_stages, cpus,
                   frame, data, stage_voyages, pools, pool_requests, corpus_in,
                   proximity_matrix, stage_clusters, voyage_map, files, written>>
    /\ UNCHANGED outside_pipe

\* Every stage running although settings.stages does not name it.
stage_enabled_always(stage, stages) == TRUE

\* The test every stage function starts with: "<stage>" in settings.stages.
stage_enabled(stage, stages) == stage \in stages

\* main_pipeline.py lines 17-31 and 164, with create_features.main line 242.
RunFeatures ==
    /\ qpc = "features"
    /\ IF stage_enabled("features", settings[1].stages)
       THEN /\ data' = <<"DataFrame", frame>>
            /\ files' = [files EXCEPT !.voyages = <<"DataFrame", frame>>]
            /\ written' = written \cup {"voyages"}
       ELSE /\ data' = None
            /\ UNCHANGED <<files, written>>
    /\ qpc' = "compression"
    /\ UNCHANGED <<run_name, cfg_compression_eps, cfg_clustering_eps, cfg_stages, cpus,
                   frame, settings, stage_voyages, pools, pool_requests, corpus_in,
                   proximity_matrix, stage_clusters, voyage_map, failed_in>>
    /\ UNCHANGED outside_pipe

\* main_pipeline.py lines 34-68 and 165, with cc.compress_voyages lines 60-85.
CompressStage ==
    /\ qpc = "compression"
    /\ IF ~stage_enabled("compression", settings[1].stages)
       THEN /\ stage_voyages' = data
            /\ qpc' = "dtw"
            /\ UNCHANGED <<pools, pool_requests, files, written, failed_in>>
       ELSE LET df == IF data = None THEN files.voyages[2] ELSE data[2]
                res == compress_voyages(df, settings[1].compression_eps)
            IN IF ~guarded(run_name)
               THEN \* the function falls off its end: None is returned and stored
                    /\ stage_voyages' = None
                    /\ files' = [files EXCEPT !.compressed = None]
                    /\ written' = written \cup {"compressed"}
                    /\ qpc' = "dtw"
                    /\ UNCHANGED <<pools, pool_requests, failed_in>>
               ELSE /\ pool_requests' = Append(pool_requests,
                                               [by |-> "compress_voyages",
                                                cpu_count |-> cpus,
                                                processes |-> cpus - 1])
                    /\ IF cpus - 1 < 1
                       THEN \* mp.Pool(processes=0) raises
                            /\ qpc' = "raised"
                            /\ failed_in' = "compression"
                            /\ UNCHANGED <<stage_voyages, pools, files, written>>
                       ELSE /\ pools' = pools + 1
                            /\ IF res = None
                               THEN /\ qpc' = "raised"
                                    /\ failed_in' = "compression"
                                    /\ UNCHANGED <<stage_voyages, files, written>>
                               ELSE /\ stage_voyages' = <<"dict", res[1]>>
                                    /\ files' = [files EXCEPT
                                                    !.compressed = <<"dict", res[1]>>]
                                    /\ written' = written \cup {"compressed"}
                                    /\ qpc' = "dtw"
                                    /\ UNCHANGED failed_in
    /\ UNCHANGED <<run_name, cfg_compression_eps, cfg_clustering_eps, cfg_stages, cpus,
                   frame, settings, data, corpus_in, proximity_matrix, stage_clusters,
                   voyage_map>>
    /\ UNCHANGED outside_pipe

\* A voyage with a row that is not a number makes cdist raise.
CorpusRaises(corpus) ==
    \/ \E k \in 1..Len(corpus) : \E r \in 1..Len(corpus[k]) : corpus[k][r] = Unparsed
    \/ calc_proximity_matrix(corpus) = None

\* main_pipeline.py lines 91-94: what compare_voyages hands to
\* calc_proximity_matrix, read from the compressed file when it is given None.
compare_input ==
    IF stage_voyages = None THEN files.compressed
    ELSE IF stage_voyages[1] = "DataFrame"
         THEN <<"dict", extract_coords(stage_voyages[2])>>
         ELSE stage_voyages

\* main_pipeline.py lines 71-100 and 166-168.
CompareStage ==
    /\ qpc = "dtw"
    /\ IF ~stage_enabled("dtw", settings[1].stages)
       THEN /\ proximity_matrix' = stage_voyages
            /\ qpc' = "clustering"
            /\ UNCHANGED <<pools, pool_requests, corpus_in, files, written, failed_in>>
       ELSE /\ corpus_in' = IF compare_input = None THEN None
                            ELSE Some(compare_input[2])
            /\ IF ~guarded(run_name)
               THEN \* the function falls off its end: None is returned and stored
                    /\ proximity_matrix' = None
                    /\ files' = [files EXCEPT !.proximity = None]
                    /\ written' = written \cup {"proximity"}
                    /\ qpc' = "clustering"
                    /\ UNCHANGED <<pools, pool_requests, failed_in>>
               ELSE /\ pools' = pools + 1
                    /\ pool_requests' = Append(pool_requests,
                                               [by |-> "calc_proximity_matrix",
                                                cpu_count |-> cpus,
                                                processes |-> cpus])
                    /\ IF CorpusRaises(compare_input[2])
                       THEN /\ qpc' = "raised"
                            /\ failed_in' = "dtw"
                            /\ UNCHANGED <<proximity_matrix, files, written>>
                       ELSE /\ proximity_matrix' =
                                   <<"ndarray", calc_proximity_matrix(compare_input[2])[1]>>
                            /\ files' = [files EXCEPT !.proximity =
                                   <<"ndarray", calc_proximity_matrix(compare_input[2])[1]>>]
                            /\ written' = written \cup {"proximity"}
                            /\ qpc' = "clustering"
                            /\ UNCHANGED failed_in
    /\ UNCHANGED <<run_name, cfg_compression_eps, cfg_clustering_eps, cfg_stages, cpus,
                   frame, settings, data, stage_voyages, stage_clusters, voyage_map>>
    /\ UNCHANGED outside_pipe

\* main_pipeline.py lines 111-114: the voyage dictionary cluster_voyages labels,
\* read from the compressed file when it is given None.
voyage_dict_given ==
    IF stage_voyages = None THEN files.compressed
    ELSE IF stage_voyages[1] = "DataFrame"
         THEN <<"dict", extract_coords(stage_voyages[2])>>
         ELSE stage_voyages

\* main_pipeline.py lines 116-117 and 120: what clusterer.fit is given, read
\* from the proximity file when cluster_voyages is given None.
distance_matrix_given ==
    IF proximity_matrix = None THEN files.proximity ELSE proximity_matrix

\* zip(voyage_dict.keys(), clusterer.labels_): as long as the shorter of the two.
zip_labels(n_keys, labels) ==
    LET n == IF n_keys < Len(labels) THEN n_keys ELSE Len(labels)
    IN dict_zip([k \in 1..n |-> k], SubSeq(labels, 1, n))

\* clusterer.fit(distance_matrix): the labels, or None when the fit raises
\* (the argument is no array, or DBSCAN rejects it).
fit_labels ==
    IF distance_matrix_given = None THEN None
    ELSE IF distance_matrix_given[1] # "ndarray" THEN None
    ELSE DBSCAN(distance_matrix_given[2], settings[1].clustering_eps)

\* main_pipeline.py lines 103-125 and 169-173.
ClusterStage ==
    /\ qpc = "clustering"
    /\ IF ~stage_enabled("clustering", settings[1].stages)
       THEN /\ stage_clusters' = None
            /\ qpc' = "plotting"
            /\ UNCHANGED failed_in
       ELSE IF fit_labels = None \/ voyage_dict_given = None
            THEN \* fit raises, or None has no keys()
                 /\ qpc' = "raised"
                 /\ failed_in' = "clustering"
                 /\ UNCHANGED stage_clusters
            ELSE /\ stage_clusters' = Some(zip_labels(Len(voyage_dict_given[2]),
                                                      fit_labels[1]))
                 /\ qpc' = "plotting"
                 /\ UNCHANGED failed_in
    /\ UNCHANGED <<run_name, cfg_compression_eps, cfg_clustering_eps, cfg_stages, cpus,
                   frame, settings, data, stage_voyages, pools, pool_requests, corpus_in,
                   proximity_matrix, voyage_map, files, written>>
    /\ UNCHANGED outside_pipe

\* main_pipeline.py lines 137-140: the assignment becomes flags only when some
\* voyage is noise.
map_clusters(assignment) ==
    IF assignment # None
       /\ \E k \in 1..Len(assignment[1]) : assignment[1][k][2] = -1
    THEN Some([k \in 1..Len(assignment[1]) |->
                 <<assignment[1][k][1],
                   IF assignment[1][k][2] < 0 THEN 1 ELSE 0>>])
    ELSE assignment

\* main_pipeline.py lines 128-145 and 174-176: the map is made of the feature
\* data (read from the voyages file when it is None) and the assignment.
PlotStage ==
    /\ qpc = "plotting"
    /\ IF ~stage_enabled("plotting", settings[1].stages)
       THEN /\ voyage_map' = None
            /\ UNCHANGED written
       ELSE /\ voyage_map' = Some([dataf |-> IF data = None THEN files.voyages ELSE data,
                                   voyage_classes_all |-> map_clusters(stage_clusters)])
            /\ written' = written \cup {"map"}
    /\ qpc' = "done"
    /\ UNCHANGED <<run_name, cfg_compression_eps, cfg_clustering_eps, cfg_stages, cpus,
                   frame, settings, data, stage_voyages, pools, pool_requests, corpus_in,
                   proximity_matrix, stage_clusters, files, failed_in>>
    /\ UNCHANGED outside_pipe

NextPipeline ==
    \/ SettingsInit
    \/ RunFeatures
    \/ CompressStage
    \/ CompareStage
    \/ ClusterStage
    \/ PlotStage

SpecPipeline == InitPipeline /\ [][NextPipeline]_vars

\* ------------------------------------------------- the distance of one pair
MaxSeries == 2

Corners == {p00, p30, p34, p04}

\* Non-empty coordinate arrays: every array of up to MaxSeries corner points,
\* and the two longer voyages.
DistanceShapes == (SeqsUpTo(Corners, MaxSeries) \ {<<>>}) \cup {StraightB, Loop}

\* The outcome of a call: the value it returned, or the fact that it raised.
Returned(value) == <<"returned", value>>
Raised == <<"raised">>

\* dtw(x, y, distance_only=True).distance as the call sites see it.
dtw_call(x, y) == IF DtwRaises(x, y) THEN Raised ELSE Returned(dtw(x, y))

InitDistance ==
    /\ IdleEarlier
    /\ IdleEval
    /\ IdleSimplify
    /\ IdlePipeline
    /\ IdleRepeat
    /\ IdleVoyage
    /\ dpc = {}
    /\ d_a \in DistanceShapes
    /\ d_b \in DistanceShapes
    /\ d_ab = None
    /\ d_ba = None
    /\ d_aa = None
    /\ d_extra = None

\* compress_and_compare_voyages.py line 104, proximity_parallel(i, j, a, b).
DistanceForward ==
    /\ "forward" \notin dpc
    /\ dpc' = dpc \cup {"forward"}
    /\ d_ab' = Some(dtw_call(d_a, d_b))
    /\ UNCHANGED <<d_a, d_b, d_ba, d_aa, d_extra>>
    /\ UNCHANGED outside_dist

\* compress_and_compare_voyages.py line 104, proximity_parallel(j, i, b, a).
DistanceBackward ==
    /\ "backward" \notin dpc
    /\ dpc' = dpc \cup {"backward"}
    /\ d_ba' = Some(dtw_call(d_b, d_a))
    /\ UNCHANGED <<d_a, d_b, d_ab, d_aa, d_extra>>
    /\ UNCHANGED outside_dist

\* compress_and_compare_voyages.py line 104, proximity_parallel(i, i, a, a).
DistanceSelf ==
    /\ "self" \notin dpc
    /\ dpc' = dpc \cup {"self"}
    /\ d_aa' = Some(dtw_call(d_a, d_a))
    /\ UNCHANGED <<d_a, d_b, d_ab, d_ba, d_extra>>
    /\ UNCHANGED outside_dist

\* cluster_predict.py lines 19-23, calc_extra_distance({i: a}, b).
DistanceExtra ==
    /\ "extra" \notin dpc
    /\ dpc' = dpc \cup {"extra"}
    /\ d_extra' = Some(IF DtwRaises(d_a, d_b) THEN Raised
                       ELSE Returned(calc_extra_distance(<<d_a>>, d_b)))
    /\ UNCHANGED <<d_a, d_b, d_ab, d_ba, d_aa>>
    /\ UNCHANGED outside_dist

NextDistance ==
    \/ DistanceForward
    \/ DistanceBackward
    \/ DistanceSelf
    \/ DistanceExtra

SpecDistance == InitDistance /\ [][NextDistance]_vars


\* ---------------------------------------------- the clustering, repeated
MaxRuns == 3
MaxRepeatCorpus == 6

\* Training corpora of up to MaxRepeatCorpus voyages: straight paths followed
\* by loops, large enough for a cluster to form next to noise.
RepeatCorpora ==
    {Copies(StraightA, k) \o Copies(Loop, m) :
        k \in 0..MaxRepeatCorpus, m \in 0..MaxRepeatCorpus}

\* The test voyage predict_voyages goes on to after voyage v.
next_test_voyage(v) ==
    IF v = StraightA THEN StraightB ELSE IF v = StraightB THEN Loop ELSE StraightA

\* The caller's matrix had the extended matrix take its place.
orig_matrix_extended(orig_matrix, new_distances) ==
    ndarray(expand_distance_matrix(orig_matrix, new_distances))

\* The caller's matrix had expand_distance_matrix written the new distances
\* over its last row and column instead.
orig_matrix_overwritten(orig_matrix, new_distances) ==
    LET N == Len(orig_matrix)
    IN ndarray([r \in 1..N |-> [c \in 1..N |->
           IF r = N /\ c = N THEN 0
           ELSE IF r = N THEN new_distances[c]
           ELSE IF c = N THEN new_distances[r]
           ELSE orig_matrix[r][c]]])

\* np.append hands back a copy (cluster_predict.py lines 29 and 30): the
\* caller's matrix after expand_distance_matrix(orig_matrix, new_distances).
orig_matrix_after_expand(orig_matrix, new_distances) == orig_matrix

InitRepeat ==
    /\ IdleEarlier
    /\ IdleEval
    /\ IdleSimplify
    /\ IdlePipeline
    /\ IdleDistance
    /\ IdleVoyage
    /\ r_train \in RepeatCorpora
    /\ Len(r_train) <= MaxRepeatCorpus
    /\ r_matrix = calc_proximity_matrix(r_train)[1]
    /\ r_voyage \in PredictShapes
    /\ r_eps \in EpsValues
    /\ r_runs = <<>>

\* main_pipeline.py lines 119-120: a new DBSCAN object is fitted to the matrix.
ClusterAgain ==
    /\ Len(r_runs) < MaxRuns
    /\ r_runs' = Append(r_runs, [call |-> "cluster_voyages",
                                 voyage |-> <<>>,
                                 matrix |-> r_matrix,
                                 radius |-> r_eps,
                                 result |-> DBSCAN(r_matrix, r_eps)])
    /\ UNCHANGED <<r_train, r_matrix, r_voyage, r_eps>>
    /\ UNCHANGED outside_rep

\* cluster_predict.py lines 34-41: one more call with the same arguments.
PredictAgain ==
    /\ Len(r_runs) < MaxRuns
    /\ r_runs' = Append(r_runs, [call |-> "predict_single_voyage",
                                 voyage |-> r_voyage,
                                 matrix |-> r_matrix,
                                 radius |-> r_eps,
                                 result |-> Some(predict_single_voyage(
                                                r_train, r_matrix, r_voyage, r_eps))])
    /\ r_matrix' = orig_matrix_after_expand(r_matrix,
                                            calc_extra_distance(r_train, r_voyage))
    /\ UNCHANGED <<r_train, r_voyage, r_eps>>
    /\ UNCHANGED outside_rep

\* cluster_predict.py lines 66-70: predict_voyages goes on to another test
\* voyage, with the same training voyages and the same training matrix.
PredictOther ==
    /\ Len(r_runs) < MaxRuns
    /\ LET other == next_test_voyage(r_voyage)
       IN /\ r_runs' = Append(r_runs, [call |-> "predict_single_voyage",
                                       voyage |-> other,
                                       matrix |-> r_matrix,
                                       radius |-> r_eps,
                                       result |-> Some(predict_single_voyage(
                                                      r_train, r_matrix, other, r_eps))])
          /\ r_matrix' = orig_matrix_after_expand(r_matrix,
                                                  calc_extra_distance(r_train, other))
    /\ UNCHANGED <<r_train, r_voyage, r_eps>>
    /\ UNCHANGED outside_rep

NextRepeat ==
    \/ ClusterAgain
    \/ PredictAgain
    \/ PredictOther

SpecRepeat == InitRepeat /\ [][NextRepeat]_vars


\* ------------------------------------- calc_proximity_matrix, with progress
\* The interpreter and the pool go on whenever they can: the coordinating
\* process runs its next statement, a free worker takes the next chunk, and
\* starmap returns or re-raises once the results are in. Nothing makes a
\* running pair task finish: proximity_parallel has no timeout.
ProxProgress ==
    /\ WF_vars(Enter)
    /\ WF_vars(BuildStep)
    /\ WF_vars(PoolStart)
    /\ WF_vars(\E k \in 0..(number_combinations(MaxVoyages) - 1) : TaskStart(k))
    /\ WF_vars(StarmapReturn)
    /\ WF_vars(StarmapRaise)
    /\ WF_vars(AssembleStep)
    /\ WF_vars(Return)

\* Whether a pair task completes or raises depends on the voyages being
\* well-formed, not on their coordinates: one shape of each kind is enough.
ProgressShapes == {Degenerate, StraightA}

InitProgress ==
    /\ InitProx
    /\ \A i \in DOMAIN compressed_voyages : compressed_voyages[i] \in ProgressShapes

SpecProgress == InitProgress /\ [][NextProx]_vars /\ ProxProgress


\* ------------------------------------------------- the voyages of one ship
MaxShipPoints == 3

\* Timestamps are counted in days.
MaxDays == 3

\* pd.Timedelta(days=1).
one_day == 1

\* The rows of one ship after compute_voyages has added nav_status_still:
\* moored or anchored or not, inside a zone or outside every zone (EEZ_Type
\* null), and the timestamp.
ShipPoints ==
    [nav_status_still : BOOLEAN,
     EEZ_Type : {None, Some("EEZ")},
     Timestamp_datetime : 0..MaxDays]

\* dataf.sort_values(timestamp): the rows in timestamp order; the order of rows
\* with equal timestamps is whatever the sort makes of it.
sort_values(dataf) ==
    {[i \in 1..Len(dataf) |-> dataf[p[i]]] :
        p \in {q \in Permutations(1..Len(dataf)) :
                 \A i, j \in 1..Len(dataf) :
                    i < j => dataf[q[i]].Timestamp_datetime
                                <= dataf[q[j]].Timestamp_datetime}}

\* Series.shift(1): row i holds the value of the row before, the first row holds
\* a missing value.
shift(column, i) == IF i = 1 THEN None ELSE Some(column[i - 1])

\* astype(bool) of a shifted boolean column: the missing value is true.
astype_bool(shifted) == IF shifted = None THEN TRUE ELSE shifted[1]

\* isnull() of a shifted EEZ_Type: the missing first value and a row outside
\* every zone are both null.
shifted_isnull(shifted) == shifted = None \/ shifted[1] = None

\* A gap of exactly the limit also starting a voyage.
gap_exceeds_or_equals(delta, limit) == delta # None /\ delta[1] >= limit

\* timestamp - timestamp.shift(1) > pd.Timedelta(days=1): a comparison with NaT
\* is false.
gap_exceeds(delta, limit) == delta # None /\ delta[1] > limit

\* Lines 141-148: the mask of row i.
voyage_mask(dataf, i) ==
    LET still == [k \in 1..Len(dataf) |-> dataf[k].nav_status_still]
        eez == [k \in 1..Len(dataf) |-> dataf[k].EEZ_Type]
        stamp == [k \in 1..Len(dataf) |-> dataf[k].Timestamp_datetime]
        delta == IF shift(stamp, i) = None THEN None
                 ELSE Some(stamp[i] - shift(stamp, i)[1])
    IN \/ astype_bool(shift(still, i)) /\ ~still[i]
       \/ shifted_isnull(shift(eez, i)) # (eez[i] = None)
       \/ gap_exceeds(delta, one_day)

RECURSIVE cumsum(_, _)
\* Series.cumsum() of the 0/1 column, up to row i.
cumsum(column, i) ==
    IF i = 0 THEN <<>>
    ELSE LET before == cumsum(column, i - 1)
         IN Append(before, (IF i = 1 THEN 0 ELSE before[i - 1]) + column[i])

InitVoyage ==
    /\ IdleEarlier
    /\ IdleEval
    /\ IdleSimplify
    /\ IdlePipeline
    /\ IdleDistance
    /\ IdleRepeat
    /\ vpc = "call"
    /\ v_dataf \in SeqsUpTo(ShipPoints, MaxShipPoints)
    /\ v_sorted = <<>>
    /\ v_mask = <<>>
    /\ voyage_temp = <<>>

\* Line 138: dataf = dataf.sort_values(timestamp).
SortValues ==
    /\ vpc = "call"
    /\ v_sorted' \in sort_values(v_dataf)
    /\ vpc' = "sorted"
    /\ UNCHANGED <<v_dataf, v_mask, voyage_temp>>
    /\ UNCHANGED outside_voy

\* Lines 140-150: the column is zeroed, the mask is computed and its rows are
\* set to 1.
MaskRows ==
    /\ vpc = "sorted"
    /\ v_mask' = [i \in 1..Len(v_sorted) |-> voyage_mask(v_sorted, i)]
    /\ voyage_temp' = [i \in 1..Len(v_sorted) |->
                          IF voyage_mask(v_sorted, i) THEN 1 ELSE 0]
    /\ vpc' = "masked"
    /\ UNCHANGED <<v_dataf, v_sorted>>
    /\ UNCHANGED outside_voy

\* Lines 151-153: the column becomes its running sum and the frame is returned.
CumulateVoyages ==
    /\ vpc = "masked"
    /\ voyage_temp' = cumsum(voyage_temp, Len(voyage_temp))
    /\ vpc' = "returned"
    /\ UNCHANGED <<v_dataf, v_sorted, v_mask>>
    /\ UNCHANGED outside_voy

NextVoyage ==
    \/ SortValues
    \/ MaskRows
    \/ CumulateVoyages

SpecVoyage == InitVoyage /\ [][NextVoyage]_vars


\* ------------------------------------------------------------------ claims
FlatImage(n) == {flat_index(n, p[1], p[2]) : p \in Pairs(n)}

\* C1: for every corpus size N >= 2 the flat index maps the pairs i < j one to
\* one onto 0 .. N(N-1)/2 - 1; the construction loop never indexes outside the
\* array, assigns no slot twice, and once it is over every slot holds the pair
\* that the formula sends to it.
C1_FlatIndexBijection ==
    /\ \A n \in 2..MaxFlatN :
          /\ FlatImage(n) = 0..(number_combinations(n) - 1)
          /\ Cardinality(FlatImage(n)) = Cardinality(Pairs(n))
    /\ pc # "index_error"
    /\ \A k \in DOMAIN writes : writes[k] <= 1
    /\ (name = "__main__" /\ pc \notin {"call", "build"}) =>
          \A k \in Slots :
             /\ writes[k] = 1
             /\ inputs[k] # None
             /\ inputs[k][1][1] < inputs[k][1][2]
             /\ flat_index(n_voyages, inputs[k][1][1], inputs[k][1][2]) = k

C1_Witness ==
    /\ pc = "run"
    /\ n_voyages >= 3
    /\ \A k \in Slots : writes[k] = 1

\* C2: the matrix handed to the caller is N x N, symmetric, non-negative, zero
\* on the diagonal, and its entry (i, j), i # j, is the DTW distance between the
\* i-th and the j-th voyage of the corpus in key order.
C2_MatrixContract ==
    ret # None =>
       LET M == ret[1]
       IN /\ Len(M) = n_voyages
          /\ \A r \in 1..n_voyages :
                /\ Len(M[r]) = n_voyages
                /\ M[r][r] = 0
                /\ \A c \in 1..n_voyages :
                      /\ M[r][c] = M[c][r]
                      /\ M[r][c] >= 0
                      /\ r # c => M[r][c] = dtw(compressed_voyages[r], compressed_voyages[c])

C2_Witness ==
    /\ ret # None
    /\ n_voyages >= 3
    /\ \E r, c \in 1..n_voyages : ret[1][r][c] > 0

\* The pairs computed one by one, in loop order, by a single process.
RECURSIVE SequentialFill(_, _, _, _)
SequentialFill(voys, M, i, j) ==
    IF i >= Len(voys) - 1 THEN M
    ELSE LET M2 == [M EXCEPT ![i + 1][j + 1] = dtw(voys[i + 1], voys[j + 1])]
         IN IF j + 1 < Len(voys)
            THEN SequentialFill(voys, M2, i, j + 1)
            ELSE SequentialFill(voys, M2, i + 1, i + 2)

SequentialMatrix(voys) == PlusTranspose(SequentialFill(voys, Zeros(Len(voys)), 0, 1))

\* C3: whatever the order in which the workers finish, every result carries the
\* (i, j) of its own work item and the returned matrix is the one a sequential
\* computation of the pairs gives.
C3_CompletionOrderIndependent ==
    /\ \A k \in DOMAIN out :
          out[k] # None =>
             /\ out[k][1][1] = inputs[k][1][1]
             /\ out[k][1][2] = inputs[k][1][2]
    /\ (pc = "returned" /\ name = "__main__") =>
          /\ ret # None
          /\ ret[1] = SequentialMatrix(compressed_voyages)
          /\ ret = calc_proximity_matrix(compressed_voyages)

C3_Witness ==
    /\ ret # None
    /\ \E a, b \in 1..Len(arrival) : a < b /\ arrival[a] > arrival[b]
    /\ \E r, c \in 1..n_voyages : ret[1][r][c] > 0

\* C4: no matrix exists, is being assembled or has been handed to the caller
\* while a pair task is pending, running or failed: the result list is complete
\* before the zero matrix is allocated.
C4_BarrierBeforeAssembly ==
    (result # None \/ distances # None \/ ret # None \/ pc = "assemble") =>
       /\ DOMAIN task = Slots
       /\ \A k \in Slots : task[k] = "done"
       /\ result # None
       /\ Len(result[1]) = number_combinations(n_voyages)

C4_Witness ==
    /\ pc = "assemble"
    /\ ai = 1
    /\ n_voyages >= 3
    /\ \E a, b \in 1..Len(arrival) : a < b /\ arrival[a] > arrival[b]

HasFailingPair ==
    \E p \in Pairs(n_voyages) :
       DtwRaises(compressed_voyages[p[1] + 1], compressed_voyages[p[2] + 1])

\* C5: when the distance of some pair cannot be computed, calc_proximity_matrix
\* allocates and returns no matrix, and neither compare_voyages stores nor
\* predict_voyages clusters anything from that batch.
C5_FailureAbortsBatch ==
    ((name = "__main__" /\ HasFailingPair) \/ (\E k \in DOMAIN task : task[k] = "failed")) =>
       /\ distances = None
       /\ ret = None
       /\ stored = None
       /\ fitted = None
       /\ pc \notin {"assemble", "returned", "stored", "fitted"}

C5_Witness ==
    /\ pc = "raised"
    /\ \E k \in DOMAIN task : task[k] = "failed"
    /\ \E k \in DOMAIN task : task[k] = "done"


\* C6: predict_single_voyage called with an empty training corpus and its
\* 0 x 0 matrix returns no label (it fails).
C6_EmptyCorpusFails ==
    (entry = "predict_single_voyage" /\ Len(train_set) = 0) =>
       /\ label = None
       /\ ppc # "psv_ret"

\* The extended matrix, entry by entry.
ExpectedExtended ==
    LET n == Len(train_set)
    IN [r \in 1..(n + 1) |-> [c \in 1..(n + 1) |->
          IF r <= n /\ c <= n THEN base_distances[1][r][c]
          ELSE IF r = c THEN 0
          ELSE dtw(train_set[Min2(r, c)], new_voyage)]]

\* C8: a call of predict_single_voyage made by predict_voyages computes exactly
\* N distances, the k-th being the distance between the new voyage and the
\* training voyage of row k of the training matrix, and returns the label that
\* clustering the extended matrix gives to the last index.
C8_PredictionContract ==
    (entry = "predict_voyages" /\ ppc = "psv_ret") =>
       LET n == Len(train_set)
       IN /\ base_distances = calc_proximity_matrix(train_set)
          /\ Len(new_distance_array[1]) = n
          /\ \A k \in 1..n :
                /\ new_distance_array[1][k] = dtw(train_set[k], new_voyage)
                /\ new_distance_matrix[1][n + 1][k] = dtw(train_set[k], new_voyage)
                /\ new_distance_matrix[1][k][n + 1] = dtw(train_set[k], new_voyage)
          /\ label = Some(DBSCAN(ExpectedExtended, epsilon)[1][n + 1])

C8_Witness ==
    /\ entry = "predict_voyages"
    /\ ppc = "psv_ret"
    /\ Len(train_set) = MaxTrain
    /\ label = Some(0)
    /\ \E k \in 1..Len(train_set) : new_distance_array[1][k] > 0
    /\ \E k \in 1..Len(train_set) : new_distance_array[1][k] = 0


\* C7: expand_distance_matrix(M, d) on an N x N matrix and a vector of length N
\* returns an (N+1) x (N+1) matrix with M as its top-left block, d as its last
\* row and last column, and zero in the new corner; M itself is left as it was.
C7_ExpandContract ==
    xpc = "done" =>
       LET E == expanded[1]
           n == Len(x_matrix)
       IN /\ Len(x_distances) = n
          /\ Len(E) = n + 1
          /\ \A r \in 1..(n + 1) : Len(E[r]) = n + 1
          /\ \A r, c \in 1..n : E[r][c] = x_matrix[r][c]
          /\ \A k \in 1..n : E[n + 1][k] = x_distances[k] /\ E[k][n + 1] = x_distances[k]
          /\ E[n + 1][n + 1] = 0

C7_Witness ==
    /\ xpc = "done"
    /\ Len(x_matrix) = 2
    /\ x_matrix[1][2] # x_matrix[2][1]
    /\ x_distances[1] # x_distances[2]
    /\ x_distances[1] # x_matrix[1][2]

\* The radius the clustering of the current run used.
UsedEps ==
    IF flags_by = "prediction_pipeline" THEN cluster_eps
    ELSE IF flags_by = "oracle" THEN oracle_eps
    ELSE IF flags_by = "make_binary_class" THEN evaluation_eps
    ELSE clustering_eps

\* Positions a, b hold straight paths within the radius of each other and
\* position c holds the loop, farther than the radius from both.
ScenarioA(a, b, c) ==
    /\ Len(voyage_dict) = 3
    /\ {a, b, c} = {1, 2, 3}
    /\ voyage_dict[a] \in {StraightA, StraightB}
    /\ voyage_dict[b] \in {StraightA, StraightB}
    /\ voyage_dict[c] = Loop
    /\ dtw(voyage_dict[a], voyage_dict[b]) <= UsedEps
    /\ dtw(voyage_dict[a], voyage_dict[c]) > UsedEps
    /\ dtw(voyage_dict[b], voyage_dict[c]) > UsedEps

\* C9: in a corpus of two straight paths within the radius of each other and a
\* loop farther away, the clustering of the pipeline gives the straight paths
\* one common non-negative cluster id and flag 0, and the loop noise and flag 1.
C9_ScenarioAClusters ==
    \A a, b, c \in 1..3 :
       (lpc \in {"labelled", "flagged"} /\ flags_by \in {"none", "prediction_pipeline"}
           /\ ScenarioA(a, b, c)) =>
          /\ voyage_clusters[1][a] = voyage_clusters[1][b]
          /\ voyage_clusters[1][a] >= 0
          /\ voyage_clusters[1][c] = -1
          /\ flags # None => (flags[1][a] = 0 /\ flags[1][b] = 0 /\ flags[1][c] = 1)

\* C10: wherever cluster ids become anomaly flags, a voyage gets flag 1 exactly
\* when its cluster id is the noise sentinel, and the map stage puts a voyage in
\* 'Cluster outlier' only if it is noise.
C10_FlagIffNoise ==
    /\ flags # None =>
          \A k \in 1..Len(voyage_clusters[1]) :
             flags[1][k] = IF voyage_clusters[1][k] = -1 THEN 1 ELSE 0
    /\ (lpc \in {"mapping", "mapped"} /\ voyage_clusters # None) =>
          \A k \in 1..Len(voyage_clusters[1]) :
             map_input[1][k] = IF voyage_clusters[1][k] = -1 THEN 1 ELSE 0
    /\ lpc = "mapped" => \A k \in outliers : voyage_clusters[1][k] = -1

\* The positions of y_pred that hold the identifier v.
PairsOf(v) == {k \in 1..Len(y_pred[1]) : y_pred[1][k][1] = v}

\* C11: when a confusion matrix has been computed, every train voyage and every
\* test voyage of the partition contributes exactly one (oracle flag, predicted
\* flag) pair and nothing else does: a train voyage with the flag of the
\* train-only clustering, a test voyage with the flag of its prediction.
C11_ConfusionOverUnion ==
    epc = "done" =>
       /\ Len(cm[1]) = Len(ev_train) + Len(ev_test)
       /\ \A v \in ev_ids : Cardinality(PairsOf(v)) = 1
       /\ \A k \in 1..Len(ev_train) :
             \A q \in PairsOf(ev_train[k]) :
                cm[1][q] = <<ev_oracle[1][ev_train[k]], dict_get(train_bin[1], ev_train[k])>>
       /\ \A k \in 1..Len(ev_test) :
             \A q \in PairsOf(ev_test[k]) :
                cm[1][q] = <<ev_oracle[1][ev_test[k]], dict_get(test_bin[1], ev_test[k])>>

\* The hold-out script alone computes its matrix over the union.
C11_HoldoutOverUnion == ev_entry = "holdout" => C11_ConfusionOverUnion

\* s is what is left of t after some of its rows are struck out.
RECURSIVE IsSubsequence(_, _)
IsSubsequence(s, t) ==
    IF Len(s) = 0 THEN TRUE
    ELSE IF Len(t) = 0 THEN FALSE
    ELSE IF Head(s) = Head(t) THEN IsSubsequence(Tail(s), Tail(t))
    ELSE IsSubsequence(s, Tail(t))

Simplified(coords, compressed) ==
    /\ IsSubsequence(compressed, coords)
    /\ Len(compressed) <= Len(coords)
    /\ Len(compressed) >= 2
    /\ compressed[1] = coords[1]
    /\ compressed[Len(compressed)] = coords[Len(coords)]

\* C15: for every voyage of two rows or more and every tolerance >= 0, the
\* compressed voyage is an order-preserving subsequence of the input, it is no
\* longer than the input, and its first and last rows are the input's.
C15_SimplifyContract ==
    Len(s_coords) >= 2 =>
       /\ s_out1 # None => Simplified(s_coords, s_out1[1])
       /\ s_out2 # None => Simplified(s_coords, s_out2[1])

C15_Witness ==
    /\ spc = "both"
    /\ Len(s_coords) >= 4
    /\ Len(s_out1[1]) = 3
    /\ Len(s_out2[1]) = 2

Retained(mask) == {i \in 1..Len(mask) : mask[i]}

\* C16: for tolerances 0 <= s_eps1 <= s_eps2 the rows retained under s_eps2
\* are among those retained under s_eps1, so the larger tolerance retains no
\* more rows.
C16_SimplifyMonotone ==
    spc = "both" =>
       /\ Retained(s_mask2[1]) \subseteq Retained(s_mask1[1])
       /\ Len(s_out2[1]) <= Len(s_out1[1])

C16_Witness ==
    /\ spc = "both"
    /\ s_eps1 < s_eps2
    /\ Len(s_out2[1]) < Len(s_out1[1])
    /\ Len(s_out2[1]) > 2

NoThreeCollinear(M) ==
    \A k \in 1..(Len(M) - 2) : cross2(M[k + 1], M[k], M[k + 2]) # 0

\* C17: under tolerance 0 a voyage in which no three consecutive rows lie on
\* one line comes back unchanged.
C17_ZeroToleranceKeepsAll ==
    NoThreeCollinear(s_coords) =>
       /\ (s_out1 # None /\ s_eps1 = 0) => s_out1[1] = s_coords
       /\ (s_out2 # None /\ s_eps2 = 0) => s_out2[1] = s_coords

C17_Witness ==
    /\ s_out1 # None
    /\ s_eps1 = 0
    /\ NoThreeCollinear(s_coords)
    /\ Len(s_coords) >= 4
    /\ s_out1[1] = s_coords

\* C12: a clustering radius that is zero or negative, and a compression
\* tolerance that is negative, are rejected when Settings is constructed: no
\* settings object exists, no stage has run and no pool has been created.
C12_ConfigRejectedEarly ==
    (cfg_clustering_eps <= 0 \/ cfg_compression_eps < 0) =>
       /\ settings = None
       /\ pools = 0
       /\ qpc \in {"idle", "config", "rejected"}

\* The negative values are rejected as claimed.
C12_NegativeRejectedEarly ==
    (cfg_clustering_eps < 0 \/ cfg_compression_eps < 0) =>
       /\ settings = None
       /\ pools = 0
       /\ qpc \in {"idle", "config", "rejected"}

\* The voyages compress_voyages was given.
CompressInput == IF data = None THEN frame ELSE data[2]

\* The simplified form of every voyage whose simplification succeeds and keeps
\* more than one row.
RECURSIVE SurvivingVoyages(_, _)
SurvivingVoyages(voyages, eps) ==
    IF Len(voyages) = 0 THEN <<>>
    ELSE (IF ~RdpRaises(Head(voyages)) /\ Len(rdp(Head(voyages), eps)) > 1
          THEN <<rdp(Head(voyages), eps)>> ELSE <<>>)
         \o SurvivingVoyages(Tail(voyages), eps)

\* C13: once compress_voyages has run with a pool, it has returned the corpus
\* of the simplified forms of all voyages whose simplification succeeded and
\* has more than one row, whether or not another voyage's simplification failed.
C13_SimplifyFailureIsolated ==
    (/\ settings # None
     /\ "compression" \in cfg_stages
     /\ run_name = "__main__"
     /\ cpus >= 2
     /\ qpc \notin {"idle", "config", "features", "compression"}) =>
       stage_voyages = <<"dict", SurvivingVoyages(CompressInput, cfg_compression_eps)>>

\* Without a failing voyage the batch is returned as claimed.
C13_CleanBatchReturned ==
    (\A k \in 1..Len(frame) : ~RdpRaises(frame[k])) => C13_SimplifyFailureIsolated

\* C14: every voyage of a corpus handed to calc_proximity_matrix by the
\* pipeline has two rows or more.
C14_CorpusWellFormed ==
    corpus_in # None => \A k \in 1..Len(corpus_in[1]) : Len(corpus_in[1][k]) >= 2

\* With the compression stage enabled the corpus is filtered as claimed.
C14_CompressedCorpusWellFormed == "compression" \in cfg_stages => C14_CorpusWellFormed

\* Both arrays hold two points or more, as every voyage of a compressed corpus.
BothComparable == Len(d_a) >= 2 /\ Len(d_b) >= 2

\* C18 as stated: for all non-empty coordinate sequences A and B the distance
\* is computed in both orders with the same value, and the distance of A to
\* itself is computed and is zero.
C18_DistanceSymmetric ==
    /\ {"forward", "backward"} \subseteq dpc =>
           /\ d_ab[1] # Raised
           /\ d_ba[1] # Raised
           /\ d_ab[1] = d_ba[1]
    /\ "self" \in dpc => d_aa[1] = Returned(0)

\* C18: for all coordinate sequences A and B of two points or more, possibly
\* of unequal length, distance(A, B) and distance(B, A) are computed and
\* equal, distance(A, A) is zero, and calc_extra_distance yields the same
\* value as proximity_parallel.
C18_DistanceSymmetricFromTwoPoints ==
    BothComparable =>
        /\ {"forward", "backward"} \subseteq dpc =>
               /\ d_ab[1] # Raised
               /\ d_ab[1] = d_ba[1]
        /\ "self" \in dpc => d_aa[1] = Returned(0)
        /\ {"forward", "extra"} \subseteq dpc =>
               /\ d_ab[1] # Raised
               /\ d_extra[1] = Returned(<<d_ab[1][2]>>)

\* Both orders of a pair of unequal lengths have been computed, and the
\* distance is not zero.
C18_Witness ==
    /\ BothComparable
    /\ Len(d_a) # Len(d_b)
    /\ {"forward", "backward", "self"} \subseteq dpc
    /\ d_ab[1] # Raised
    /\ d_ab[1][2] > 0
    /\ d_ba[1] = d_ab[1]

\* The recurrence D[i, j] = cost(A[i], B[j]) + min(D[i-1, j], D[i, j-1],
\* D[i-1, j-1]) with D[1, 1] = cost(A[1], B[1]): the local cost once per cell.
RECURSIVE reference_cost(_, _, _, _)
reference_cost(xs, ys, i, j) ==
    LET c == Euclid(xs[i], ys[j])
    IN IF i = 1 /\ j = 1 THEN c
       ELSE IF i = 1 THEN c + reference_cost(xs, ys, 1, j - 1)
       ELSE IF j = 1 THEN c + reference_cost(xs, ys, i - 1, 1)
       ELSE c + Min3(reference_cost(xs, ys, i - 1, j),
                     reference_cost(xs, ys, i, j - 1),
                     reference_cost(xs, ys, i - 1, j - 1))

\* The recurrence of the step pattern symmetric2, cell by cell: the local
\* cost once after an insertion or a deletion, twice after a match.
RECURSIVE symmetric2_cost(_, _, _, _)
symmetric2_cost(xs, ys, i, j) ==
    LET c == Euclid(xs[i], ys[j])
    IN IF i = 1 /\ j = 1 THEN c
       ELSE IF i = 1 THEN symmetric2_cost(xs, ys, 1, j - 1) + c
       ELSE IF j = 1 THEN symmetric2_cost(xs, ys, i - 1, 1) + c
       ELSE Min3(symmetric2_cost(xs, ys, i - 1, j) + c,
                 symmetric2_cost(xs, ys, i, j - 1) + c,
                 symmetric2_cost(xs, ys, i - 1, j - 1) + 2 * c)

\* C19 as stated: the distance computed for A (length m) and B (length n) is
\* D[m, n] of the recurrence that adds the local cost once per cell whichever
\* predecessor is chosen.
C19_ReferenceRecurrence ==
    (BothComparable /\ "forward" \in dpc /\ d_ab[1] # Raised) =>
        d_ab[1][2] = reference_cost(d_a, d_b, Len(d_a), Len(d_b))

\* C19: the distance computed for A (length m) and B (length n), each of two
\* points or more, is D[m, n] of the recurrence D[i, j] = min(D[i-1, j] + c,
\* D[i, j-1] + c, D[i-1, j-1] + 2c) with c = cost(A[i], B[j]) and
\* D[1, 1] = cost(A[1], B[1]): a match adds the local cost twice.
C19_Symmetric2Recurrence ==
    (BothComparable /\ "forward" \in dpc) =>
        d_ab[1] = Returned(symmetric2_cost(d_a, d_b, Len(d_a), Len(d_b)))

\* A distance has been computed that the two recurrences tell apart.
C19_Witness ==
    /\ BothComparable
    /\ "forward" \in dpc
    /\ d_ab[1] # Raised
    /\ d_ab[1][2] > reference_cost(d_a, d_b, Len(d_a), Len(d_b))

ev_eps == IF ev_entry = "holdout" THEN evaluation_eps ELSE fold_eps

\* Voyage i lies farther than the radius from every other voyage of the corpus.
Isolated(i) ==
    \A j \in ev_ids \ {i} : dtw(ev_corpus[i], ev_corpus[j]) > ev_eps

\* The flag the train/test path gave voyage i.
PathFlag(i) ==
    IF i \in dict_keys(train_bin[1]) THEN dict_get(train_bin[1], i)
    ELSE dict_get(test_bin[1], i)

\* C21: a voyage farther than the radius from every other voyage has binary
\* label 1 in the oracle clustering and in the train/test path (train-only
\* clustering or predict_single_voyage), whatever the partition.
C21_OutlierAgreed ==
    epc \in {"binarised", "merged", "done"} =>
        \A i \in ev_ids : Isolated(i) => ev_oracle[1][i] = 1 /\ PathFlag(i) = 1

\* An isolated voyage has been predicted as a test voyage next to a corpus
\* the oracle clusters.
C21_Witness ==
    /\ epc = "done"
    /\ \E i \in ev_ids :
          /\ Isolated(i)
          /\ i \in dict_keys(test_bin[1])
          /\ PathFlag(i) = 1
    /\ \E j \in ev_ids : ev_oracle[1][j] = 0

\* An isolated voyage has been clustered as a training voyage.
C21_WitnessTrain ==
    /\ epc = "done"
    /\ \E i \in ev_ids :
          /\ Isolated(i)
          /\ i \in dict_keys(train_bin[1])
          /\ PathFlag(i) = 1

\* C22: every worker pool of the core is requested with a number of workers
\* that is a positive integer, whatever the CPU count from 1 on, and that
\* leaves a reserve of the CPUs to the coordinating process.
C22_PoolSized ==
    \A k \in DOMAIN pool_requests :
        /\ pool_requests[k].processes >= 1
        /\ pool_requests[k].processes < pool_requests[k].cpu_count

\* What does hold: compress_voyages asks for one worker less than there are
\* CPUs, calc_proximity_matrix for as many workers as there are CPUs.
C22_PoolRequests ==
    \A k \in DOMAIN pool_requests :
        pool_requests[k].processes =
            IF pool_requests[k].by = "compress_voyages"
            THEN pool_requests[k].cpu_count - 1
            ELSE pool_requests[k].cpu_count

\* The clustering stage is about to run, or has run.
ClusteringRuns ==
    /\ qpc \in {"clustering", "plotting", "done"}
    /\ "clustering" \in settings[1].stages

\* What clusterer.fit is given is a square matrix with one row per voyage of
\* the dictionary used for labelling.
MatrixFitsDict ==
    /\ distance_matrix_given # None
    /\ voyage_dict_given # None
    /\ distance_matrix_given[1] = "ndarray"
    /\ IsSquare(distance_matrix_given[2])
    /\ Len(distance_matrix_given[2]) = Len(voyage_dict_given[2])

\* C23: whatever the enabled stages, when the clustering stage runs the
\* clusterer is given a square N x N matrix, N the number of voyages of the
\* dictionary used for labelling, and the assignment returned has one label
\* per voyage id.
C23_MatrixAlignedWithDict ==
    ClusteringRuns =>
        /\ MatrixFitsDict
        /\ qpc \in {"plotting", "done"} =>
               dict_keys(stage_clusters[1]) = 1..Len(voyage_dict_given[2])

\* What does hold: with the dtw stage enabled and its pool allowed, the
\* matrix fits the dictionary and every voyage id has its label.
C23_AlignedAfterDtw ==
    (ClusteringRuns /\ "dtw" \in settings[1].stages /\ run_name = "__main__") =>
        /\ MatrixFitsDict
        /\ qpc \in {"plotting", "done"} =>
               dict_keys(stage_clusters[1]) = 1..Len(voyage_dict_given[2])

\* The compression stage has called cc.compress_voyages and is past it.
CompressCalled ==
    /\ settings # None
    /\ "compression" \in settings[1].stages
    /\ qpc \notin {"idle", "config", "features", "compression"}

\* The dtw stage has called cc.calc_proximity_matrix and is past it.
CompareCalled ==
    /\ settings # None
    /\ "dtw" \in settings[1].stages
    /\ qpc \notin {"idle", "config", "features", "compression", "dtw"}

\* C24: compress_voyages and calc_proximity_matrix ask for a worker pool only
\* when their name argument is "__main__"; for any other name no pool is
\* asked for, no task is run, the inputs are as they were and the value
\* handed back (and stored by the calling stage) is None.
C24_PoolOnlyUnderMain ==
    /\ pool_requests # <<>> => run_name = "__main__"
    /\ run_name # "__main__" =>
          /\ pools = 0
          /\ CompressCalled => stage_voyages = None /\ files.compressed = None
          /\ CompareCalled => proximity_matrix = None /\ files.proximity = None
          /\ data \in {None, <<"DataFrame", frame>>}
          /\ files.voyages = <<"DataFrame", frame>>

\* Both functions have been called with another name than "__main__" on a
\* frame with voyages in it.
C24_Witness ==
    /\ run_name # "__main__"
    /\ CompressCalled
    /\ CompareCalled
    /\ Len(frame) >= 2
    /\ qpc = "done"

TaskDone(k) == k \in DOMAIN task /\ task[k] = "done"

\* Every pair of this call has its completed task. A completed task stays
\* completed, so "every task eventually completes" is "eventually every task
\* has completed", and "some task never completes" is "never has every task
\* completed".
EveryTaskDone == \A k \in Slots : TaskDone(k)

\* C26: when calc_proximity_matrix runs its body and every pair task
\* eventually completes, it eventually returns a matrix; when some pair task
\* never completes, it never returns and starmap never hands over a result,
\* not for the other pairs either.
C26_BarrierNeedsEveryTask ==
    /\ ([](name = "__main__") /\ <>EveryTaskDone) => <>(ret # None)
    /\ [](~EveryTaskDone) => [](result = None /\ ret = None)

\* The matrix has been returned after three pair tasks or more completed, not
\* in the order of their submission.
C26_Witness ==
    /\ ret # None
    /\ Len(arrival) >= 3
    /\ \E a, b \in DOMAIN arrival : a < b /\ arrival[a] > arrival[b]
    /\ \A k \in DOMAIN task : task[k] = "done"

\* C27: a stage of run_pipeline whose name is not in settings.stages computes
\* nothing and writes no file: it opens no pool, leaves every stored file and
\* the set of written files alone and does not raise; run_features returns
\* None, compress_voyages and compare_voyages return the data they were given,
\* cluster_voyages and make_voyage_maps return None.
C27_SkippedStageDoesNothing ==
    [][\A stage \in StageNames :
          (qpc = stage /\ stage \notin settings[1].stages) =>
             /\ files' = files
             /\ written' = written
             /\ pools' = pools
             /\ pool_requests' = pool_requests
             /\ corpus_in' = corpus_in
             /\ qpc' # "raised"
             /\ stage = "features" => data' = None
             /\ stage = "compression" => stage_voyages' = data
             /\ stage = "dtw" => proximity_matrix' = stage_voyages
             /\ stage = "clustering" => stage_clusters' = None
             /\ stage = "plotting" => voyage_map' = None]_vars

\* A finished run with only the features and plotting stages: the feature
\* data went through the two skipped stages as it was, nothing was clustered,
\* and only the voyages file and the map were written.
C27_Witness ==
    /\ qpc = "done"
    /\ settings[1].stages = {"features", "plotting"}
    /\ data # None
    /\ data[2] # <<>>
    /\ stage_voyages = data
    /\ proximity_matrix = data
    /\ stage_clusters = None
    /\ pool_requests = <<>>
    /\ written = {"voyages", "map"}
    /\ files.compressed = StoredFiles.compressed
    /\ files.proximity = StoredFiles.proximity

\* The later of two consecutive points starts a voyage by the three rules.
StartsVoyage(earlier, later) ==
    \/ earlier.nav_status_still /\ ~later.nav_status_still
    \/ (earlier.EEZ_Type = None) # (later.EEZ_Type = None)
    \/ later.Timestamp_datetime - earlier.Timestamp_datetime > one_day

\* C28: in what _voyage_per_ship returns, the points are in timestamp order,
\* the voyage counter never decreases along them, and from one point to the
\* next it goes up, by exactly 1, if and only if the earlier point is moored or
\* anchored and the later is not, or exactly one of the two is outside every
\* zone, or their timestamps are more than one day apart.
C28_VoyageCounterSteps ==
    vpc = "returned" =>
        /\ Len(voyage_temp) = Len(v_sorted)
        /\ \A i \in 1..(Len(v_sorted) - 1) :
              /\ v_sorted[i].Timestamp_datetime <= v_sorted[i + 1].Timestamp_datetime
              /\ voyage_temp[i + 1] >= voyage_temp[i]
              /\ voyage_temp[i + 1] - voyage_temp[i] \in {0, 1}
              /\ (voyage_temp[i + 1] = voyage_temp[i] + 1)
                    <=> StartsVoyage(v_sorted[i], v_sorted[i + 1])

\* Three points passed in out of order: the second follows the first after
\* exactly one day and stays in its voyage, the third follows more than a day
\* later, with nothing else changed, and starts the next one.
C28_Witness ==
    /\ vpc = "returned"
    /\ Len(v_sorted) = 3
    /\ v_dataf # v_sorted
    /\ v_sorted[2].Timestamp_datetime - v_sorted[1].Timestamp_datetime = one_day
    /\ v_sorted[3].Timestamp_datetime - v_sorted[2].Timestamp_datetime > one_day
    /\ \A i \in 1..3 : ~v_sorted[i].nav_status_still /\ v_sorted[i].EEZ_Type # None
    /\ voyage_temp[2] = voyage_temp[1]
    /\ voyage_temp[3] = voyage_temp[2] + 1

\* The evaluation clusters with one radius on both sides (the minimum number
\* of points is DBSCAN's default on both).
SameRadius ==
    IF ev_entry = "holdout" THEN oracle_eps = evaluation_eps
    ELSE fold_oracle_eps = fold_eps

\* C29: with the same radius and minimum number of points on both sides, a
\* voyage the train-only clustering or predict_single_voyage flags 0 is flagged
\* 0 by the oracle clustering of the whole corpus, whatever the partition, and
\* the evaluation never counts the pair (oracle 1, predicted 0).
C29_ClusteredIsClusteredInOracle ==
    SameRadius =>
        /\ epc \in {"binarised", "merged", "done"} =>
              \A i \in ev_ids : PathFlag(i) = 0 => ev_oracle[1][i] = 0
        /\ epc = "done" =>
              \A k \in 1..Len(cm[1]) : cm[1][k] # <<1, 0>>

\* A finished evaluation in which the training voyages were clustered on their
\* own and a test voyage joined their cluster, all flagged 0 by the oracle too.
C29_Witness ==
    /\ epc = "done"
    /\ SameRadius
    /\ \E i \in dict_keys(train_bin[1]) : PathFlag(i) = 0 /\ ev_oracle[1][i] = 0
    /\ \E i \in dict_keys(test_bin[1]) : PathFlag(i) = 0 /\ ev_oracle[1][i] = 0
    /\ \E k \in 1..Len(cm[1]) : cm[1][k] = <<0, 0>>

\* A finished evaluation that counts the opposite pair: a voyage the oracle
\* clusters and the train/test path flags as an outlier.
C29_WitnessOpposite ==
    /\ epc = "done"
    /\ \E k \in 1..Len(cm[1]) : cm[1][k] = <<0, 1>>

\* calc_proximity_matrix of the training corpus with the new voyage appended as
\* its last key.
FullMatrix == calc_proximity_matrix(Append(train_set, new_voyage))

\* The binary anomaly flag of a DBSCAN label.
AnomalyFlag(l) == IF l < 0 THEN 1 ELSE 0

\* C30: for a non-empty training corpus with its matrix from
\* calc_proximity_matrix and a new voyage, the matrix expand_distance_matrix
\* builds from calc_extra_distance is the matrix calc_proximity_matrix returns
\* for the corpus with the new voyage appended, and the flag of the label
\* predict_single_voyage returns is the flag the new voyage gets when the
\* corpus with the new voyage is clustered as a whole with the same radius.
C30_ExpansionIsFullMatrix ==
    (Len(train_set) >= 1 /\ new_distance_matrix # None) =>
        /\ FullMatrix # None
        /\ new_distance_matrix[1] = FullMatrix[1]
        /\ label # None =>
              AnomalyFlag(label[1]) =
                 AnomalyFlag(last_label(DBSCAN(FullMatrix[1], epsilon)[1]))

\* predict_single_voyage has returned label 0 for a voyage that joined a
\* training corpus of both straight paths, none of them clustered without it.
C30_Witness ==
    /\ entry = "predict_single_voyage"
    /\ ppc = "psv_ret"
    /\ label = Some(0)
    /\ \E a, b \in 1..Len(train_set) :
          train_set[a] = StraightA /\ train_set[b] = StraightB
    /\ \A k \in 1..Len(train_set) : DBSCAN(base_distances[1], epsilon)[1][k] = -1
    /\ new_distance_matrix[1] = FullMatrix[1]

\* predict_single_voyage has returned the noise label for a loop next to
\* straight paths.
C30_WitnessOutlier ==
    /\ ppc = "psv_ret"
    /\ label = Some(-1)
    /\ new_voyage = Loop
    /\ Len(train_set) >= 2
    /\ \A k \in 1..Len(train_set) : train_set[k] # Loop

====
